---- MODULE Spec2Model ----
(***************************************************************************)
(* Receipt bot: media-group aggregation, extraction pipeline and the       *)
(* conversation handlers of src/src/bot.py, with the services they call.   *)
(*                                                                         *)
(* Time is counted in quarters of a second, so the settings of             *)
(* src/src/config.py:29-31 (3.0 s, 0.5 s, 1.0 s) are 12, 2 and 4.          *)
(* A timestamp is kept as the time elapsed since it was taken: the code's  *)
(* datetime.now() - last_update is the field since_update, which Tick      *)
(* advances; an elapsed time stops growing at the largest value any        *)
(* comparison looks at.                                                    *)
(* Handlers run one update at a time (Application.builder() is used with   *)
(* its default, non-concurrent update processing, bot.py:1284); only the   *)
(* tasks made by asyncio.create_task interleave with them.                 *)
(*                                                                         *)
(* The call openai_service.process_receipts(photos, language=language) at  *)
(* bot.py:280 passes a keyword that the callee (openai_service.py:230)     *)
(* does not take, so as written it raises TypeError before the body runs.  *)
(* The variable binding says which build runs: "keyword" is the call as    *)
(* written, "positional" the call that reaches the body.                   *)
(*                                                                         *)
(* SpecAgg    photo arrival and the aggregation tasks, in time             *)
(* SpecEngine the conversation handlers, the pipeline and the sinks, in    *)
(*            the build where the call reaches process_receipts            *)
(* SpecPipe   process_receipts called on its own with every triple of      *)
(*            answers                                                      *)
(***************************************************************************)
EXTENDS Integers, Sequences, FiniteSets, TLC

\* ------------------------------------------------------------------ bounds
MaxPhotos == 5
MaxSingles == 2
MaxOversleep == 0
MaxEdits == 2
MaxEditReceipts == 1
MaxItems == 2
MaxUpdates == 3
MaxProgramPhotos == 2

\* ------------------------------------------------- configuration constants
MEDIA_GROUP_MAX_WAIT_TIME == 12
MEDIA_GROUP_CHECK_INTERVAL == 2
MEDIA_GROUP_IDLE_THRESHOLD == 4

Keys == {"g1", "g2"}
Users == {1}
\* the submitter whose update carries a given media_group_id
Owner(k) == 1

VARIABLES
    media_groups,   \* telegram_utils.media_groups: key -> entry
    tasks,          \* live process_media_group tasks
    nTasks,         \* tasks created so far
    nPhotos,        \* photos delivered so far
    handed,         \* batches passed to ask_for_language, in order
    user_data,      \* context.user_data per user
    reply,          \* the messages the last handler or task step sent, per user
    conv,           \* per user: the state of each ConversationHandler
    pc,             \* the handler that is inside process_photos_with_language
    call,           \* a call of one function on its own: arguments and result
    language_prefs, \* data/language_preferences.json: user -> 'languages'
    currency_prefs, \* data/currency_preferences.json: user -> 'currencies'
    gs_rows,        \* the rows appended to the Google Sheet tab
    db_rows,        \* the rows inserted into the products table
    audit,          \* the CSV texts written by save_csv_response
    gs_configured,  \* config.GOOGLE_SHEETS_SPREADSHEET_ID is set
    binding,        \* how the call at bot.py:280 reaches process_receipts
    persisted,      \* per user: a confirm wrote rows and no extraction succeeded since
    chosen,         \* per user: a currency was accepted since the latest extraction success
    outcome,        \* how the extraction went that the last step finished, if it did
    edits,          \* edits of the pending items made so far
    dispatch,       \* the updates waiting for the application and its running handlers
    arrived,        \* per key: how many photos came with that key; the i-th is photo i
    sinceFirst,     \* per key: time since the first append (-1: none yet)
    sinceLast,      \* per key: time since the latest append (-1: none yet)
    closeGaps,      \* per key: every consecutive pair was < idle_threshold apart
    spanShort       \* per key: every append was < max_wait after the first

aggVars == <<media_groups, tasks, nTasks, arrived, sinceFirst, sinceLast,
             closeGaps, spanShort>>
prefVars == <<language_prefs, currency_prefs>>
sinkVars == <<gs_rows, db_rows, audit, gs_configured, binding, dispatch, persisted,
              chosen>>
engVars == <<conv, pc, call, edits, prefVars, sinkVars>>
vars == <<media_groups, tasks, nTasks, nPhotos, handed, user_data, reply,
          arrived, sinceFirst, sinceLast, closeGaps, spanShort, conv, pc, call,
          language_prefs, currency_prefs, gs_rows, db_rows, audit, gs_configured,
          binding, persisted, chosen, outcome, edits, dispatch>>

NoEntry == [present |-> FALSE, photos |-> <<>>, since_update |-> 0]

\* -------------------------------------------------------------- user_data
\* A key that is absent from user_data is the value its readers default to:
\* an empty list, an empty text, False, None (-1 for the index).
NoCsv == [empty |-> TRUE, rows |-> <<>>]
EmptyUserData ==
    [pending_receipt_photos |-> <<>>,
     pending_receipt_csv |-> NoCsv,
     pending_receipt_products |-> <<>>,
     selected_language |-> <<>>,
     selected_currency |-> <<>>,
     waiting_for_custom_language |-> FALSE,
     waiting_for_custom_currency |-> FALSE,
     editing_product_idx |-> -1,
     waiting_for_quantity |-> FALSE,
     waiting_for_price |-> FALSE]
ConvEnd == [language |-> "END", currency |-> "END", edit |-> "END"]
\* no handler is inside process_photos_with_language
Idle == [stage |-> "idle", user |-> 0, via |-> "", language |-> <<>>, photos |-> <<>>,
         result_attempt |-> 0, resps |-> <<>>]
\* no call of process_receipts was made on its own
NoCall == [photos |-> <<>>, resps |-> <<>>, returned |-> FALSE,
           result |-> [done |-> FALSE, raised |-> "", csv |-> NoCsv, sent |-> <<>>,
                       saved |-> {}]]

\* no update waits and no handler runs; delivered counts the updates so far
NoDispatch == [queue |-> <<>>, running |-> {}, delivered |-> 0]

\* calls: invocations of process_receipts; refusals: refusal answers to the last
NoOutcome == [user |-> 0, calls |-> 0, refusals |-> 0]

\* an elapsed time one tick later; it stops at cap, and -1 (never) stays
Later(e, cap) == IF e < 0 \/ e >= cap THEN e ELSE e + 1

\* ------------------------------------------------------------ ask_for_language
\* stores the photos for the submitter and prompts for the language
ask_for_language(u, photos) ==
    /\ user_data' = [user_data EXCEPT ![u].pending_receipt_photos = photos]
    /\ reply' = [reply EXCEPT ![u] = <<"choose_language">>]

\* ------------------------------------------------------------------ handle_photo
TasksAfterAppend_spawn(k) ==
    tasks \cup {[id |-> nTasks + 1, key |-> k, waited |-> 0,
                 sleep_left |-> MEDIA_GROUP_CHECK_INTERVAL]}

\* the else branch of handle_photo creates no task
TasksAfterAppend(k) == tasks

FirstEntry_empty(p) == [present |-> TRUE, photos |-> <<>>, since_update |-> 0]

\* the entry the first photo of a key puts into the map
FirstEntry(p) == [present |-> TRUE, photos |-> <<p>>, since_update |-> 0]

AppendPhoto_stale(entry, p) == [entry EXCEPT !.photos = Append(@, p)]

\* a later photo of a key: appended, and the entry's time of last update set
AppendPhoto(entry, p) == [entry EXCEPT !.photos = Append(@, p), !.since_update = 0]

\* handle_photo from the end of the download to the message it awaits: the
\* key is looked up and the photo put into the map
collect_photo(k) ==
    LET p == arrived[k] + 1 IN
    /\ nPhotos' = nPhotos + 1
    /\ arrived' = [arrived EXCEPT ![k] = p]
    /\ closeGaps' = [closeGaps EXCEPT ![k] =
            @ /\ (sinceLast[k] >= 0 => sinceLast[k] < MEDIA_GROUP_IDLE_THRESHOLD)]
    /\ spanShort' = [spanShort EXCEPT ![k] =
            @ /\ sinceFirst[k] < MEDIA_GROUP_MAX_WAIT_TIME]
    /\ sinceLast' = [sinceLast EXCEPT ![k] = 0]
    /\ sinceFirst' = [sinceFirst EXCEPT ![k] = IF @ < 0 THEN 0 ELSE @]
    /\ IF ~media_groups[k].present
       THEN /\ media_groups' = [media_groups EXCEPT ![k] = FirstEntry(p)]
            /\ reply' = [reply EXCEPT ![Owner(k)] = <<"photo_1_waiting">>]
       ELSE /\ media_groups' = [media_groups EXCEPT ![k] = AppendPhoto(@, p)]
            /\ reply' = [reply EXCEPT ![Owner(k)] = <<"photo_n">>]

schedule_never(k, first) == UNCHANGED <<tasks, nTasks>>

\* handle_photo after that message: the first photo of a key creates the task
schedule(k, first) ==
    IF first
    THEN /\ nTasks' = nTasks + 1
         /\ tasks' = tasks \cup {[id |-> nTasks + 1, key |-> k, waited |-> 0,
                                  sleep_left |-> MEDIA_GROUP_CHECK_INTERVAL]}
    ELSE /\ tasks' = TasksAfterAppend(k)
         /\ UNCHANGED nTasks

\* a photo that carries a media_group_id
handle_photo_group(k) ==
    /\ pc.stage = "idle"
    /\ nPhotos < MaxPhotos
    /\ collect_photo(k)
    /\ schedule(k, ~media_groups[k].present)
    /\ outcome' = NoOutcome
    /\ UNCHANGED <<handed, user_data, engVars>>

\* a photo without media_group_id goes straight to the language prompt
handle_photo_single(u) ==
    /\ pc.stage = "idle"
    /\ nPhotos < MaxPhotos
    /\ Cardinality({i \in 1..Len(handed) : handed[i].key = "none"}) < MaxSingles
    /\ nPhotos' = nPhotos + 1
    /\ handed' = Append(handed, [key |-> "none", photos |-> <<0>>])
    /\ ask_for_language(u, <<0>>)
    /\ outcome' = NoOutcome
    /\ UNCHANGED <<aggVars, engVars>>

\* ------------------------------------------------------------ process_media_group
TakeBatch_keep(t) ==
    LET k == t.key IN
    IF ~media_groups[k].present \/ Len(media_groups[k].photos) = 0
    THEN UNCHANGED <<media_groups, handed, user_data, reply>>
    ELSE /\ handed' = Append(handed, [key |-> k, photos |-> media_groups[k].photos])
         /\ ask_for_language(Owner(k), media_groups[k].photos)
         /\ UNCHANGED media_groups

\* the part after the wait loop: take the batch out of the map and hand it over
TakeBatch(t) ==
    LET k == t.key IN
    IF ~media_groups[k].present
    THEN UNCHANGED <<media_groups, handed, user_data, reply>>
    ELSE /\ media_groups' = [media_groups EXCEPT ![k] = NoEntry]
         /\ IF Len(media_groups[k].photos) = 0
            THEN UNCHANGED <<handed, user_data, reply>>
            ELSE /\ handed' = Append(handed, [key |-> k, photos |-> media_groups[k].photos])
                 /\ ask_for_language(Owner(k), media_groups[k].photos)

IdleReached_short(k) ==
    /\ media_groups[k].present
    /\ media_groups[k].since_update >= MEDIA_GROUP_CHECK_INTERVAL

\* the test inside the loop: the key is in the map and nothing was appended
\* for idle_threshold
IdleReached(k) ==
    /\ media_groups[k].present
    /\ media_groups[k].since_update >= MEDIA_GROUP_IDLE_THRESHOLD

WaitOver_late(waited) == ~(waited <= MEDIA_GROUP_MAX_WAIT_TIME)

\* the loop condition fails: while waited < max_wait_time
WaitOver(waited) == ~(waited < MEDIA_GROUP_MAX_WAIT_TIME)

\* one turn of the wait loop: the sleep ends, waited grows, the idle test runs;
\* on break or when waited reaches max_wait_time the task goes on to TakeBatch
process_media_group(t) ==
    /\ t \in tasks
    /\ t.sleep_left <= 0
    /\ LET k == t.key
           waited == t.waited + MEDIA_GROUP_CHECK_INTERVAL
       IN IF IdleReached(k) \/ WaitOver(waited)
          THEN /\ tasks' = tasks \ {t}
               /\ TakeBatch(t)
          ELSE /\ tasks' = (tasks \ {t}) \cup
                       {[t EXCEPT !.waited = waited,
                                  !.sleep_left = MEDIA_GROUP_CHECK_INTERVAL]}
               /\ UNCHANGED <<media_groups, handed, user_data, reply>>
    /\ outcome' = NoOutcome
    /\ UNCHANGED <<nTasks, nPhotos, arrived, sinceFirst, sinceLast, closeGaps,
                   spanShort, engVars>>

\* the longest a poll can come after the point at which the batch was idle for
\* idle_threshold: one sleep, and what the sleep returns late
LatestPoll == MEDIA_GROUP_IDLE_THRESHOLD + MEDIA_GROUP_CHECK_INTERVAL + MaxOversleep

\* a quarter of a second passes; asyncio.sleep returns at its deadline, at most
\* MaxOversleep late
Tick ==
    /\ \A t \in tasks : t.sleep_left > -MaxOversleep
    /\ tasks' = {[t EXCEPT !.sleep_left = @ - 1] : t \in tasks}
    /\ media_groups' = [k \in Keys |->
            [media_groups[k] EXCEPT !.since_update =
                IF media_groups[k].present
                THEN Later(@, MEDIA_GROUP_IDLE_THRESHOLD) ELSE @]]
    /\ sinceLast' = [k \in Keys |-> Later(sinceLast[k], LatestPoll)]
    /\ sinceFirst' = [k \in Keys |-> Later(sinceFirst[k], MEDIA_GROUP_MAX_WAIT_TIME)]
    /\ outcome' = NoOutcome
    /\ UNCHANGED <<nTasks, nPhotos, handed, user_data, reply, arrived,
                   closeGaps, spanShort, engVars>>

\* the process right after start: empty map, empty user_data, no preference
\* files, nothing in the sinks
InitCommon ==
    /\ media_groups = [k \in Keys |-> NoEntry]
    /\ tasks = {}
    /\ nTasks = 0
    /\ nPhotos = 0
    /\ handed = <<>>
    /\ user_data = [u \in Users |-> EmptyUserData]
    /\ reply = [u \in Users |-> <<>>]
    /\ conv = [u \in Users |-> ConvEnd]
    /\ pc = Idle
    /\ language_prefs = [u \in Users |-> <<>>]
    /\ currency_prefs = [u \in Users |-> <<>>]
    /\ gs_rows = <<>>
    /\ db_rows = <<>>
    /\ audit = {}
    /\ gs_configured \in BOOLEAN
    /\ persisted = [u \in Users |-> FALSE]
    /\ chosen = [u \in Users |-> FALSE]
    /\ outcome = NoOutcome
    /\ edits = 0
    /\ dispatch = NoDispatch
    /\ arrived = [k \in Keys |-> 0]
    /\ sinceFirst = [k \in Keys |-> -1]
    /\ sinceLast = [k \in Keys |-> -1]
    /\ closeGaps = [k \in Keys |-> TRUE]
    /\ spanShort = [k \in Keys |-> TRUE]

InitAgg == InitCommon /\ call = NoCall /\ binding = "keyword" /\ gs_configured

NextAgg ==
    \/ \E k \in Keys : handle_photo_group(k)
    \/ \E u \in Users : handle_photo_single(u)
    \/ \E t \in tasks : process_media_group(t)
    \/ Tick

SpecAgg == InitAgg /\ [][NextAgg]_vars

\* ====================================================================== text
\* A text is a sequence of one-character strings.
Letters == {"A","B","D","E","H","I","L","N","O","R","S","T","U","X",
            "a","b","d","e","h","i","l","n","o","r","s","t","u","x"}
\* str.upper, character by character
UpperChar(c) ==
    CASE c = "a" -> "A" [] c = "b" -> "B" [] c = "d" -> "D" [] c = "e" -> "E"
      [] c = "h" -> "H" [] c = "o" -> "O"
      [] c = "i" -> "I" [] c = "l" -> "L" [] c = "n" -> "N" [] c = "r" -> "R"
      [] c = "s" -> "S" [] c = "t" -> "T" [] c = "u" -> "U" [] c = "x" -> "X"
      [] OTHER -> c
Upper(t) == [i \in 1..Len(t) |-> UpperChar(t[i])]
\* str.strip
Strip(t) ==
    LET ink == {i \in 1..Len(t) : t[i] # " "} IN
    IF ink = {} THEN <<>>
    ELSE SubSeq(t, CHOOSE i \in ink : \A j \in ink : i <= j,
                   CHOOSE i \in ink : \A j \in ink : i >= j)
\* str.isalpha
IsAlpha(t) == Len(t) > 0 /\ \A i \in 1..Len(t) : t[i] \in Letters

\* float(): the value of a text in hundredths, for the decimal form (sign,
\* digits, at most one point) and for "nan"; ok is FALSE where float() raises
\* ValueError.  NaN is the value of float("nan"): no number, and every
\* comparison with it is False.
NaN == -1000000
Digits == {"0", "1", "2", "3", "4", "5", "6", "7", "8", "9"}
DigitVal(c) ==
    CASE c = "0" -> 0 [] c = "1" -> 1 [] c = "2" -> 2 [] c = "3" -> 3
      [] c = "4" -> 4 [] c = "5" -> 5 [] c = "6" -> 6 [] c = "7" -> 7
      [] c = "8" -> 8 [] c = "9" -> 9
RECURSIVE IntOf(_)
IntOf(ds) ==
    IF ds = <<>> THEN 0
    ELSE IntOf(SubSeq(ds, 1, Len(ds) - 1)) * 10 + DigitVal(ds[Len(ds)])
float(t) ==
    LET signed == t # <<>> /\ t[1] \in {"-", "+"}
        body == IF signed THEN Tail(t) ELSE t
        points == {i \in 1..Len(body) : body[i] = "."}
        point == IF points = {} THEN Len(body) + 1 ELSE CHOOSE i \in points : TRUE
        whole == SubSeq(body, 1, point - 1)
        frac == SubSeq(body, point + 1, Len(body))
        hundredths == SubSeq(frac \o <<"0", "0">>, 1, 2)
        magnitude == IntOf(whole) * 100 + IntOf(hundredths)
    IN IF Upper(body) = <<"N", "A", "N">> THEN [ok |-> TRUE, value |-> NaN]
       ELSE IF /\ Cardinality(points) <= 1
               /\ Len(whole) + Len(frac) >= 1
               /\ \A i \in 1..Len(whole) : whole[i] \in Digits
               /\ \A i \in 1..Len(frac) : frac[i] \in Digits
       THEN [ok |-> TRUE,
             value |-> IF signed /\ t[1] = "-" THEN 0 - magnitude ELSE magnitude]
       ELSE [ok |-> FALSE, value |-> 0]
\* text.replace(',', '.')
ReplaceComma(t) == [i \in 1..Len(t) |-> IF t[i] = "," THEN "." ELSE t[i]]
\* the comparisons of a float with a number
FloatLE(x, n) == x # NaN /\ x <= n
FloatLT(x, n) == x # NaN /\ x < n

RSD == <<"R","S","D">>
EUR == <<"E","U","R">>
Serbian == <<"S","e","r","b","i","a","n">>

\* callback data is kept without its "language_" or "currency_" prefix
Other == <<"o","t","h","e","r">>

\* what the submitter can press or type
LanguageButtons == {Serbian}
LanguageTexts == {<<" ","S","e","r","b","i","a","n">>, <<" ">>}
CurrencyButtons == {RSD}
CurrencyTexts == {<<"1","2","X">>, <<" ","e","u","r"," ">>, <<"E","U","R","O">>,
                  <<"a","b">>, <<"1","2","3">>}

\* =============================================================== preferences
MAX_STORED_CURRENCIES == 6
MAX_STORED_LANGUAGES == 6

Without(list, x) == SelectSeq(list, LAMBDA y : y # x)
Truncate(list, n) == SubSeq(list, 1, IF Len(list) < n THEN Len(list) ELSE n)

add_user_currency_back(prefs, u, currency) ==
    LET c == Strip(Upper(currency)) IN
    IF Len(c) # 3 THEN prefs
    ELSE [prefs EXCEPT ![u] = Truncate(Without(@, c) \o <<c>>, MAX_STORED_CURRENCIES)]

\* currency_storage.add_user_currency: normalise, refuse a code that is not 3
\* long, else move the code to the front and keep the first 6
add_user_currency(prefs, u, currency) ==
    LET c == Strip(Upper(currency)) IN
    IF Len(c) # 3 THEN prefs
    ELSE [prefs EXCEPT ![u] = Truncate(<<c>> \o Without(@, c), MAX_STORED_CURRENCIES)]

\* language_storage.add_user_language
add_user_language(prefs, u, language) ==
    LET l == Strip(language) IN
    IF l = <<>> THEN prefs
    ELSE [prefs EXCEPT ![u] = Truncate(<<l>> \o Without(@, l), MAX_STORED_LANGUAGES)]

USD == <<"U","S","D">>
RUB == <<"R","U","B">>
GBP == <<"G","B","P">>
JPY == <<"J","P","Y">>
CHF == <<"C","H","F">>
English == <<"E","n","g","l","i","s","h">>
Russian == <<"R","u","s","s","i","a","n">>
German == <<"G","e","r","m","a","n">>
French == <<"F","r","e","n","c","h">>
Spanish == <<"S","p","a","n","i","s","h">>
Italian == <<"I","t","a","l","i","a","n">>
DEFAULT_CURRENCIES == <<RSD, EUR, USD, RUB>>
DEFAULT_LANGUAGES == <<Serbian, English, Russian, German, French, Spanish>>

\* the entries of list that are not in seen, each once, in order
RECURSIVE Unseen(_, _)
Unseen(list, seen) ==
    IF list = <<>> THEN <<>>
    ELSE IF Head(list) \in seen THEN Unseen(Tail(list), seen)
    ELSE <<Head(list)>> \o Unseen(Tail(list), seen \cup {Head(list)})

get_user_currencies_stored(prefs, u) ==
    LET user_currencies == [i \in 1..Len(prefs[u]) |-> Upper(prefs[u][i])]
    IN Unseen(user_currencies, {})

\* currency_storage.get_user_currencies: the stored codes, upper-cased, then
\* the defaults that are not among them
get_user_currencies(prefs, u) ==
    LET user_currencies == [i \in 1..Len(prefs[u]) |-> Upper(prefs[u][i])]
    IN Unseen(user_currencies \o DEFAULT_CURRENCIES, {})

\* language_storage.get_user_languages
get_user_languages(prefs, u) == Unseen(prefs[u] \o DEFAULT_LANGUAGES, {})

\* user_currencies[:6], user_languages[:6]: the buttons of a prompt
currencies_to_show(prefs, u) == Truncate(get_user_currencies(prefs, u), 6)
languages_to_show(prefs, u) == Truncate(get_user_languages(prefs, u), 6)

\* ===================================================== extraction responses
\* A receipt line as csv_parser.parse_csv returns it, plus the keys the bot
\* adds later.  Names and categories are texts; prices and quantities are the
\* numbers their texts read as, in hundredths, NaN for the text "nan" and
\* Unparsable for a price text that is no number at all.
Unparsable == -2000000
Product(orig, trans, cat, sub, price) ==
    [original_product_name |-> orig, translated_product_name |-> trans,
     category |-> cat, subcategory |-> sub, price |-> price,
     quantity |-> 100, currency |-> <<>>, receipt_date |-> <<>>]

Unknown == <<"U","n","k","n","o","w","n">>
Food == <<"F","o","o","d">>
Dairy == <<"D","a","i","r","y">>
Bakery == <<"B","a","k","e","r","y">>
Milk == Product(<<"M","l","e","k","o">>, <<"M","i","l","k">>, Food, Dairy, 250)
Bread == Product(<<"H","l","e","b">>, <<"B","r","e","a","d">>, Food, Bakery, 120)
Placeholder == Product(<<>>, <<>>, Unknown, Unknown, 0)

\* the CSV texts a strategy can end with: a table of two lines, a table of
\* placeholder values only, and a text without any data row
CsvGood == [empty |-> FALSE, rows |-> <<Milk, Bread>>]
CsvPlaceholder == [empty |-> FALSE, rows |-> <<Placeholder>>]
CsvNoRows == [empty |-> FALSE, rows |-> <<>>]
CsvTexts == {CsvGood, CsvPlaceholder, CsvNoRows}

\* str.lower, character by character
UpperCase == <<"A","B","C","D","E","F","G","H","I","J","K","L","M",
               "N","O","P","Q","R","S","T","U","V","W","X","Y","Z">>
LowerCase == <<"a","b","c","d","e","f","g","h","i","j","k","l","m",
               "n","o","p","q","r","s","t","u","v","w","x","y","z">>
LowerChar(c) ==
    IF \E i \in 1..Len(UpperCase) : UpperCase[i] = c
    THEN LowerCase[CHOOSE i \in 1..Len(UpperCase) : UpperCase[i] = c]
    ELSE c
Lower(t) == [i \in 1..Len(t) |-> LowerChar(t[i])]
\* phrase in t
Contains(t, phrase) ==
    \E i \in 0..(Len(t) - Len(phrase)) : SubSeq(t, i + 1, i + Len(phrase)) = phrase

UnableToProcess ==
    <<"u", "n", "a", "b", "l", "e", " ", "t", "o", " ", "p", "r", "o", "c",
      "e", "s", "s", " ", "i", "m", "a", "g", "e", "s">>
CannotProcess ==
    <<"c", "a", "n", "n", "o", "t", " ", "p", "r", "o", "c", "e", "s", "s",
      " ", "i", "m", "a", "g", "e", "s">>

\* the message contents a request can be answered with: none (or the empty
\* string), a blank, refusals in lower and in mixed case, a refusal followed
\* by a table, and a table
EmptyText == <<>>
BlankText == <<" ">>
RefusalText ==
    <<"I", "'", "m", " ", "u", "n", "a", "b", "l", "e", " ", "t", "o", " ",
      "p", "r", "o", "c", "e", "s", "s", " ", "i", "m", "a", "g", "e", "s",
      ".">>
RefusalMixedText ==
    <<"S", "o", "r", "r", "y", ",", " ", "I", " ", "C", "a", "n", "n", "o",
      "t", " ", "P", "r", "o", "c", "e", "s", "s", " ", "I", "m", "a", "g",
      "e", "s">>
RefusalTableText ==
    <<"I", " ", "c", "a", "n", "n", "o", "t", " ", "p", "r", "o", "c", "e",
      "s", "s", " ", "i", "m", "a", "g", "e", "s", " ", "2", "-", "3", ";",
      " ", "a", ",", "b">>
TableText == <<"a", ",", "b">>

response_kind_exact(content) ==
    IF content = <<>> THEN "no_content"
    ELSE LET raw_response == Strip(content) IN
         IF Contains(raw_response, UnableToProcess)
               \/ Contains(raw_response, CannotProcess)
         THEN "refusal" ELSE "text"

\* the checks of _process_receipts_with_prompt on the message content
response_kind(content) ==
    IF content = <<>> THEN "no_content"
    ELSE LET raw_response == Strip(content) IN
         IF Contains(Lower(raw_response), UnableToProcess)
               \/ Contains(Lower(raw_response), CannotProcess)
         THEN "refusal" ELSE "text"

\* the answer with this content; csv is the text extract_csv_strict and
\* clean_csv reduce the content to, save_ok whether save_csv_response works
Answer(content, csv, save_ok) ==
    [kind |-> response_kind(content), content |-> content,
     csv |-> IF response_kind(content) = "text" THEN csv ELSE NoCsv,
     save_ok |-> save_ok]
\* chat.completions.create raises
ApiError == [kind |-> "api_error", content |-> <<>>, csv |-> NoCsv, save_ok |-> TRUE]

\* what one request to the vision service can come to: the request raises,
\* the answer has no content, the answer is a refusal, or the answer is a
\* text (with the CSV it is reduced to, and whether save_csv_response works)
Responses ==
    {ApiError, Answer(EmptyText, NoCsv, TRUE), Answer(RefusalText, NoCsv, TRUE),
     Answer(TableText, CsvGood, TRUE), Answer(TableText, CsvNoRows, TRUE),
     Answer(TableText, CsvGood, FALSE)}
\* and, for the pipeline on its own, also the other contents; a blank is
\* reduced to the empty text
PipeResponses ==
    Responses \cup
    {Answer(BlankText, NoCsv, TRUE), Answer(RefusalMixedText, NoCsv, TRUE),
     Answer(RefusalTableText, CsvGood, TRUE)}

\* csv_parser.parse_csv on such a text
parse_csv(csv) == csv.rows

\* ======================================================== suspicious results
\* Decimal(price_str), and Decimal('0') where that raises
DecimalOrZero(price) == IF price = Unparsable THEN 0 ELSE price

AllZeroPrice_any(products) ==
    \E i \in 1..Len(products) : ~(DecimalOrZero(products[i].price) # 0)

\* no item has price_val != 0
AllZeroPrice(products) ==
    \A i \in 1..Len(products) : ~(DecimalOrZero(products[i].price) # 0)

\* (value or '').strip() or 'Unknown'
OrUnknown(value) == IF Strip(value) = <<>> THEN Unknown ELSE Strip(value)

AllUnknownCategory_only(products) ==
    \A i \in 1..Len(products) :
        Lower(OrUnknown(products[i].category)) = Lower(Unknown)

\* every item has category.lower() == 'unknown' and subcategory.lower() ==
\* 'unknown'
AllUnknownCategory(products) ==
    \A i \in 1..Len(products) :
        /\ Lower(OrUnknown(products[i].category)) = Lower(Unknown)
        /\ Lower(OrUnknown(products[i].subcategory)) = Lower(Unknown)

\* no item has orig_name or trans_name after the strip
AllEmptyNames(products) ==
    \A i \in 1..Len(products) :
        ~(Strip(products[i].original_product_name) # <<>>
             \/ Strip(products[i].translated_product_name) # <<>>)

_is_suspicious_products(products) ==
    IF products = <<>> THEN TRUE
    ELSE LET all_zero_price == AllZeroPrice(products)
             all_unknown_category == AllUnknownCategory(products)
             all_empty_names == AllEmptyNames(products)
         IN (all_zero_price /\ all_unknown_category)
                \/ (all_zero_price /\ all_empty_names)

\* ============================================================== the pipeline
StrategyName == <<"primary", "retry_1", "retry_2">>

\* openai_service._process_receipts_with_prompt on the answer to its request:
\* the error it raises ("" when it returns), the CSV text it returns and the
\* texts it writes to the audit directory
_process_receipts_with_prompt(photos, resp) ==
    IF photos = <<>>
    THEN [error |-> "no_photos", csv |-> NoCsv, saved |-> {}]
    ELSE IF resp.kind # "text"
    THEN [error |-> resp.kind, csv |-> NoCsv, saved |-> {}]
    ELSE IF ~resp.save_ok
    THEN [error |-> "save_error", csv |-> NoCsv, saved |-> {}]
    ELSE [error |-> "", csv |-> resp.csv, saved |-> {resp.csv}]

\* the loop of process_receipts from attempt n on; resps[i] is the answer to
\* the i-th request.  done is FALSE while the answer to a request is awaited.
RECURSIVE TryFrom(_, _, _, _, _)
RECURSIVE TryFrom_first(_, _, _, _, _)
TryFrom_first(photos, resps, n, sent, last_error) ==
    IF n > Len(StrategyName)
    THEN [done |-> TRUE, raised |-> last_error, csv |-> NoCsv, sent |-> sent,
          saved |-> {}]
    ELSE IF n > Len(resps)
    THEN [done |-> FALSE, raised |-> "", csv |-> NoCsv, sent |-> sent, saved |-> {}]
    ELSE LET r == _process_receipts_with_prompt(photos, resps[n])
             now_sent == Append(sent, [name |-> StrategyName[n], error |-> r.error])
         IN IF r.error = ""
            THEN [done |-> TRUE, raised |-> "", csv |-> r.csv, sent |-> now_sent,
                  saved |-> r.saved]
            ELSE TryFrom_first(photos, resps, n + 1, now_sent,
                               IF last_error = "" THEN r.error ELSE last_error)

TryFrom(photos, resps, n, sent, last_error) ==
    IF n > Len(StrategyName)
    THEN [done |-> TRUE, raised |-> last_error, csv |-> NoCsv, sent |-> sent,
          saved |-> {}]
    ELSE IF n > Len(resps)
    THEN [done |-> FALSE, raised |-> "", csv |-> NoCsv, sent |-> sent, saved |-> {}]
    ELSE LET r == _process_receipts_with_prompt(photos, resps[n])
             now_sent == Append(sent, [name |-> StrategyName[n], error |-> r.error])
         IN IF r.error = ""
            THEN [done |-> TRUE, raised |-> "", csv |-> r.csv, sent |-> now_sent,
                  saved |-> r.saved]
            ELSE TryFrom(photos, resps, n + 1, now_sent, r.error)

process_receipts_skip(photos, resps) ==
    IF photos = <<>>
    THEN [done |-> TRUE, raised |-> "no_photos", csv |-> NoCsv, sent |-> <<>>,
          saved |-> {}]
    ELSE TryFrom(photos, resps, 2, <<>>, "")

\* openai_service.process_receipts(photos)
process_receipts(photos, resps) ==
    IF photos = <<>>
    THEN [done |-> TRUE, raised |-> "no_photos", csv |-> NoCsv, sent |-> <<>>,
          saved |-> {}]
    ELSE TryFrom(photos, resps, 1, <<>>, "")

\* the phrases the except branch looks for, as the text of each error has them
Phrases(err) == IF err = "refusal" THEN {"cannot process images"} ELSE {}

\* the message the except branch of process_photos_with_language picks
ErrorMessage(err) ==
    IF Phrases(err) \cap {"refused", "unable to assist"} # {}
    THEN "error_unreadable"
    ELSE IF Phrases(err) \cap {"no products", "csv parsing failed"} # {}
    THEN "error_no_data_extracted"
    ELSE IF "cannot process images" \in Phrases(err)
    THEN "error_image"
    ELSE "error_generic"
FailureMessages == {"error_unreadable", "error_no_data_extracted", "error_image",
                    "error_generic"}

max_result_retries_two == 1 + 1

max_result_retries == 1

\* ============================================================== the handlers
\* the variables the conversation handlers never touch
photoVars == <<aggVars, nPhotos, handed>>

\* what the handler that called process_photos_with_language does after it:
\* handle_custom_language pops its waiting flag, handle_language_callback
\* has nothing left to do; both return ConversationHandler.END
AfterProcessing(ud, u, via) ==
    IF via = "text" THEN [ud EXCEPT ![u].waiting_for_custom_language = FALSE] ELSE ud

PopPhotos_keep(ud, u) == ud

\* context.user_data.pop('pending_receipt_photos', None)
PopPhotos(ud, u) == [ud EXCEPT ![u].pending_receipt_photos = <<>>]

\* ask_for_currency: store the result and prompt for the currency
ask_for_currency(ud, u, csv_response, products) ==
    [ud EXCEPT ![u].pending_receipt_csv = csv_response,
               ![u].pending_receipt_products = products]

\* process_photos_with_language up to the first request; ud and msgs are the
\* user_data and the messages the calling handler has made so far
process_photos_with_language(u, language, via, ud, msgs) ==
    LET photos == ud[u].pending_receipt_photos IN
    IF photos = <<>>
    THEN /\ reply' = [reply EXCEPT ![u] = msgs \o <<"error_no_photos">>]
         /\ user_data' = AfterProcessing(ud, u, via)
         /\ conv' = [conv EXCEPT ![u].language = "END"]
         /\ UNCHANGED pc
    ELSE IF binding = "keyword"
    THEN \* process_receipts(photos, language=language) raises TypeError
         /\ reply' = [reply EXCEPT ![u] =
                         msgs \o <<"processing", ErrorMessage("TypeError")>>]
         /\ user_data' = AfterProcessing(PopPhotos(ud, u), u, via)
         /\ conv' = [conv EXCEPT ![u].language = "END"]
         /\ UNCHANGED pc
    ELSE /\ reply' = [reply EXCEPT ![u] = msgs \o <<"processing">>]
         /\ user_data' = ud
         /\ pc' = [stage |-> "extract", user |-> u, via |-> via,
                   language |-> language, photos |-> photos,
                   result_attempt |-> 0, resps |-> <<>>]
         /\ UNCHANGED conv

\* what is remembered of a finished extraction
Outcome(u, calls, resps) ==
    [user |-> u, calls |-> calls,
     refusals |-> Cardinality({i \in 1..Len(resps) : resps[i].kind = "refusal"})]

\* the answer to the request in flight arrives: process_receipts goes on to
\* its next strategy, or ends and process_photos_with_language goes on
await_process_receipts(resp) ==
    /\ pc.stage = "extract"
    /\ LET u == pc.user
           resps == Append(pc.resps, resp)
           r == process_receipts(pc.photos, resps)
           products == parse_csv(r.csv)
       IN IF ~r.done
          THEN /\ pc' = [pc EXCEPT !.resps = resps]
               /\ outcome' = NoOutcome
               /\ UNCHANGED <<user_data, reply, conv, audit, persisted, chosen>>
          ELSE IF r.raised # ""
          THEN /\ pc' = Idle
               /\ outcome' = Outcome(u, pc.result_attempt + 1, resps)
               /\ reply' = [reply EXCEPT ![u] = @ \o <<ErrorMessage(r.raised)>>]
               /\ user_data' = AfterProcessing(PopPhotos(user_data, u), u, pc.via)
               /\ conv' = [conv EXCEPT ![u].language = "END"]
               /\ UNCHANGED <<audit, persisted, chosen>>
          ELSE IF ~(~_is_suspicious_products(products)
                      \/ pc.result_attempt >= max_result_retries)
          THEN /\ pc' = [pc EXCEPT !.result_attempt = @ + 1, !.resps = <<>>]
               /\ audit' = audit \cup r.saved
               /\ outcome' = NoOutcome
               /\ UNCHANGED <<user_data, reply, conv, persisted, chosen>>
          ELSE /\ pc' = Idle
               /\ audit' = audit \cup r.saved
               /\ user_data' = AfterProcessing(
                       ask_for_currency(PopPhotos(user_data, u), u, r.csv, products),
                       u, pc.via)
               /\ reply' = [reply EXCEPT ![u] = @ \o <<"choose_currency">>]
               /\ conv' = [conv EXCEPT ![u].language = "END"]
               /\ persisted' = [persisted EXCEPT ![u] = FALSE]
               /\ chosen' = [chosen EXCEPT ![u] = FALSE]
               /\ outcome' = Outcome(u, pc.result_attempt + 1, resps)
    /\ UNCHANGED <<photoVars, call, edits, prefVars, gs_rows, db_rows, gs_configured, binding,
                   dispatch>>

\* ------------------------------------------------------ language selection
\* handle_language_callback: data is Other or the button's language
handle_language_callback(u, data) ==
    /\ pc.stage = "idle"
    /\ IF data = Other
       THEN /\ reply' = [reply EXCEPT ![u] = <<"ask_custom_language">>]
            /\ user_data' = [user_data EXCEPT ![u].waiting_for_custom_language = TRUE]
            /\ conv' = [conv EXCEPT ![u].language = "WAITING_FOR_LANGUAGE"]
            /\ UNCHANGED <<pc, language_prefs>>
       ELSE /\ language_prefs' = add_user_language(language_prefs, u, data)
            /\ process_photos_with_language(u, data, "callback",
                   [user_data EXCEPT ![u].selected_language = data],
                   <<"language_selected">>)
    /\ outcome' = NoOutcome
    /\ UNCHANGED <<photoVars, call, edits, currency_prefs, sinkVars>>

\* handle_custom_language
handle_custom_language(u, text) ==
    /\ pc.stage = "idle"
    /\ LET language_text == Strip(text) IN
       IF ~user_data[u].waiting_for_custom_language
       THEN /\ conv' = [conv EXCEPT ![u].language = "END"]
            /\ reply' = [reply EXCEPT ![u] = <<>>]
            /\ UNCHANGED <<user_data, pc, language_prefs>>
       ELSE IF language_text = <<>>
       THEN /\ reply' = [reply EXCEPT ![u] = <<"invalid_language">>]
            /\ conv' = [conv EXCEPT ![u].language = "WAITING_FOR_LANGUAGE"]
            /\ UNCHANGED <<user_data, pc, language_prefs>>
       ELSE /\ language_prefs' = add_user_language(language_prefs, u, language_text)
            /\ process_photos_with_language(u, language_text, "text",
                   [user_data EXCEPT ![u].selected_language = language_text],
                   <<"language_selected">>)
    /\ outcome' = NoOutcome
    /\ UNCHANGED <<photoVars, call, edits, currency_prefs, sinkVars>>

\* ------------------------------------------------------ currency selection
\* for product in products: product['currency'] = currency
WithCurrency(products, currency) ==
    [i \in 1..Len(products) |-> [products[i] EXCEPT !.currency = currency]]

\* handle_currency_callback: data is Other or the button's code
handle_currency_callback(u, data) ==
    /\ pc.stage = "idle"
    /\ IF data = Other
       THEN /\ reply' = [reply EXCEPT ![u] = <<"ask_custom_currency">>]
            /\ user_data' = [user_data EXCEPT ![u].waiting_for_custom_currency = TRUE]
            /\ conv' = [conv EXCEPT ![u].currency = "WAITING_FOR_CURRENCY"]
            /\ UNCHANGED <<currency_prefs, chosen>>
       ELSE LET currency == Upper(data) IN
            /\ currency_prefs' = add_user_currency(currency_prefs, u, currency)
            /\ user_data' = [user_data EXCEPT
                   ![u].selected_currency = currency,
                   ![u].pending_receipt_products = WithCurrency(@, currency)]
            /\ reply' = [reply EXCEPT ![u] = <<"review">>]
            /\ conv' = [conv EXCEPT ![u].currency = "END"]
            /\ chosen' = [chosen EXCEPT ![u] = TRUE]
    /\ UNCHANGED <<photoVars, pc, call, edits, language_prefs, gs_rows, db_rows, audit,
                   gs_configured, binding, dispatch, persisted>>
    /\ outcome' = NoOutcome

\* the test of handle_custom_currency on the stripped, upper-cased text
ValidCurrency_len(currency_text) == ~(Len(currency_text) # 3)

ValidCurrency(currency_text) ==
    ~(Len(currency_text) # 3 \/ ~IsAlpha(currency_text))

\* handle_custom_currency
handle_custom_currency(u, text) ==
    /\ pc.stage = "idle"
    /\ LET currency_text == Upper(Strip(text)) IN
       IF ~user_data[u].waiting_for_custom_currency
       THEN /\ conv' = [conv EXCEPT ![u].currency = "END"]
            /\ reply' = [reply EXCEPT ![u] = <<>>]
            /\ UNCHANGED <<user_data, currency_prefs, chosen>>
       ELSE IF ~ValidCurrency(currency_text)
       THEN /\ reply' = [reply EXCEPT ![u] = <<"invalid_currency">>]
            /\ conv' = [conv EXCEPT ![u].currency = "WAITING_FOR_CURRENCY"]
            /\ UNCHANGED <<user_data, currency_prefs, chosen>>
       ELSE /\ currency_prefs' = add_user_currency(currency_prefs, u, currency_text)
            /\ user_data' = [user_data EXCEPT
                   ![u].selected_currency = currency_text,
                   ![u].pending_receipt_products = WithCurrency(@, currency_text),
                   ![u].waiting_for_custom_currency = FALSE]
            /\ reply' = [reply EXCEPT ![u] = <<"review">>]
            /\ conv' = [conv EXCEPT ![u].currency = "END"]
            /\ chosen' = [chosen EXCEPT ![u] = TRUE]
    /\ UNCHANGED <<photoVars, pc, call, edits, language_prefs, gs_rows, db_rows, audit,
                   gs_configured, binding, dispatch, persisted>>
    /\ outcome' = NoOutcome

\* ------------------------------------------------------------------- sinks
\* datetime.now().strftime("%Y-%m-%d")
Today == <<"t","o","d","a","y">>
NoneText == <<"N","o","n","e">>

\* gs_service: int(float(quantity_str)), 1 when that is below 1 or the
\* conversion raises ValueError (no number, or nan)
gs_quantity(quantity) ==
    IF quantity \in {NaN, Unparsable} THEN 1
    ELSE IF quantity \div 100 < 1 THEN 1 ELSE quantity \div 100
\* gs_service.write_products_to_sheet: the row of an item
sheet_row(p) ==
    [original_product_name |-> p.original_product_name,
     translated_product_name |-> p.translated_product_name,
     category |-> p.category, subcategory |-> p.subcategory, price |-> p.price,
     receipt_date |-> p.receipt_date, currency |-> p.currency]
\* rows_to_add: the row of each item, quantity times
RECURSIVE rows_to_add(_)
rows_to_add(products) ==
    IF products = <<>> THEN <<>>
    ELSE [i \in 1..gs_quantity(Head(products).quantity) |-> sheet_row(Head(products))]
             \o rows_to_add(Tail(products))
write_products_to_sheet(products) == rows_to_add(products)

\* db_service: float(quantity_str), 1 when that is below 1 or the conversion
\* raises ValueError; nan is a float and is not below 1
db_quantity(quantity) ==
    IF quantity = Unparsable THEN 100
    ELSE IF FloatLT(quantity, 100) THEN 100 ELSE quantity
\* range(int(quantity)) raises for nan
RangeRaises(products) ==
    \E i \in 1..Len(products) : db_quantity(products[i].quantity) = NaN
\* receipt_date == '' or receipt_date == 'None' gives None
DbDate(receipt_date) ==
    IF receipt_date = <<>> \/ receipt_date = NoneText THEN <<>> ELSE receipt_date
\* db_service.save_products_to_db: the row of an item
db_row(u, p) ==
    [user_id |-> u, original_product_name |-> p.original_product_name,
     translated_product_name |-> p.translated_product_name,
     category |-> p.category, subcategory |-> p.subcategory, price |-> p.price,
     receipt_date |-> DbDate(p.receipt_date), currency |-> p.currency,
     quantity |-> db_quantity(p.quantity)]
\* rows_to_insert: one row per unit of each item
RECURSIVE rows_to_insert(_, _)
rows_to_insert(u, products) ==
    IF products = <<>> THEN <<>>
    ELSE [i \in 1..(db_quantity(Head(products).quantity) \div 100)
              |-> db_row(u, Head(products))]
             \o rows_to_insert(u, Tail(products))
\* the rows save_products_to_db inserts: none when building them raises
save_products_to_db(u, products) ==
    IF RangeRaises(products) THEN <<>> ELSE rows_to_insert(u, products)

WithDate_all(products) ==
    [i \in 1..Len(products) |-> [products[i] EXCEPT !.receipt_date = Today]]

\* if not receipt_date: product['receipt_date'] = today_date
WithDate(products) ==
    [i \in 1..Len(products) |->
        IF Strip(products[i].receipt_date) = <<>>
        THEN [products[i] EXCEPT !.receipt_date = Today] ELSE products[i]]

CleanUp_keep(ud, u) == ud

\* the end of save_receipt_with_currency: both pending keys are popped
CleanUp(ud, u) ==
    [ud EXCEPT ![u].pending_receipt_csv = NoCsv,
               ![u].pending_receipt_products = <<>>]

SaveMessage_first(gs_success, db_success) ==
    IF gs_success THEN "saved_gs"
    ELSE IF db_success THEN "saved_db"
    ELSE "save_error"

\* the message save_receipt_with_currency sends
SaveMessage(gs_success, db_success) ==
    IF gs_success /\ db_success THEN "saved_gs_db"
    ELSE IF gs_success THEN "saved_gs"
    ELSE IF db_success THEN "saved_db"
    ELSE "save_error"

\* save_receipt_with_currency; gs_ok: the sheet write does not raise,
\* db_ok: the database save returns True
save_receipt_with_currency(u, currency, gs_ok, db_ok, msgs) ==
    LET csv_response == user_data[u].pending_receipt_csv
        products == user_data[u].pending_receipt_products
        stamped == WithDate(WithCurrency(products, currency))
        gs_success == gs_configured /\ gs_ok
        \* range(int(quantity)) raises for nan, and the save returns False
        db_success == db_ok /\ ~RangeRaises(products)
    IN IF csv_response.empty \/ products = <<>>
       THEN /\ reply' = [reply EXCEPT ![u] = msgs]
            /\ UNCHANGED <<user_data, gs_rows, db_rows, persisted>>
       ELSE /\ gs_rows' = IF gs_success
                          THEN gs_rows \o write_products_to_sheet(stamped)
                          ELSE gs_rows
            /\ db_rows' = IF db_success
                          THEN db_rows \o save_products_to_db(u, stamped)
                          ELSE db_rows
            /\ reply' = [reply EXCEPT ![u] =
                            <<SaveMessage(gs_success, db_success)>> \o msgs]
            /\ user_data' = CleanUp(
                   [user_data EXCEPT ![u].pending_receipt_products = stamped], u)
            /\ persisted' = [persisted EXCEPT ![u] = @ \/ gs_success \/ db_success]

Discard_keep_items(ud, u) ==
    [ud EXCEPT ![u].pending_receipt_csv = NoCsv,
               ![u].pending_receipt_photos = <<>>,
               ![u].selected_currency = <<>>,
               ![u].selected_language = <<>>]

\* the pops of action_cancel
Discard(ud, u) ==
    [ud EXCEPT ![u].pending_receipt_csv = NoCsv,
               ![u].pending_receipt_products = <<>>,
               ![u].pending_receipt_photos = <<>>,
               ![u].selected_currency = <<>>,
               ![u].selected_language = <<>>,
               ![u].editing_product_idx = -1,
               ![u].waiting_for_quantity = FALSE,
               ![u].waiting_for_price = FALSE,
               ![u].waiting_for_custom_language = FALSE]

\* handle_action_callback: action_edit, action_confirm or action_cancel
handle_action_callback(u, data, gs_ok, db_ok) ==
    /\ pc.stage = "idle"
    /\ data \in {"action_edit", "action_confirm", "action_cancel"}
    /\ LET products == user_data[u].pending_receipt_products
           csv_response == user_data[u].pending_receipt_csv
           currency == user_data[u].selected_currency
       IN IF data = "action_edit"
          THEN /\ reply' = [reply EXCEPT ![u] =
                      IF products = <<>> THEN <<"error_no_products">>
                      ELSE <<"choose_product">>]
               /\ UNCHANGED <<user_data, gs_rows, db_rows, persisted>>
          ELSE IF data = "action_confirm"
          THEN IF products = <<>> \/ csv_response.empty
               THEN /\ reply' = [reply EXCEPT ![u] = <<"error_no_data">>]
                    /\ UNCHANGED <<user_data, gs_rows, db_rows, persisted>>
               ELSE IF currency = <<>>
               THEN /\ reply' = [reply EXCEPT ![u] = <<"error_no_currency">>]
                    /\ UNCHANGED <<user_data, gs_rows, db_rows, persisted>>
               ELSE save_receipt_with_currency(u, currency, gs_ok, db_ok, <<"done">>)
          ELSE /\ user_data' = Discard(user_data, u)
               /\ reply' = [reply EXCEPT ![u] = <<"cancelled">>]
               /\ UNCHANGED <<gs_rows, db_rows, persisted>>
    /\ UNCHANGED <<photoVars, conv, pc, call, edits, prefVars, audit, gs_configured,
                   binding, dispatch, chosen>>
    /\ outcome' = NoOutcome

\* ------------------------------------------------------------ the edit flow
\* the texts a submitter sends while a quantity or a price is awaited
QuantityTexts ==
    {<<"1", ",", "5">>, <<" ", "1", ".", "5">>, <<"0">>, <<"-", "1">>, <<"x">>,
     <<"n", "a", "n">>}
PriceTexts ==
    {<<"0", ",", "5">>, <<"0", ".", "5", " ">>, <<"0">>, <<"-", "1">>, <<"x">>}
\* the callback data of handle_product_selection: edit_product_<idx> or a
\* back button
ProductIndexes == -1..2
SelectionData ==
    {[name |-> "edit_product_", idx |-> i] : i \in ProductIndexes}
    \cup {[name |-> n, idx |-> 0] : n \in {"action_back_to_list", "action_back_to_products"}}
EditTypes == {"edit_quantity", "edit_price", "edit_delete"}

\* the CSV text the edit handlers build from the items with csv.DictWriter;
\* it has no quantity column
RebuildCsv(products) ==
    [empty |-> FALSE,
     rows |-> [i \in 1..Len(products) |-> [products[i] EXCEPT !.quantity = 100]]]

\* product_idx is None or product_idx < 0 or product_idx >= len(products)
NoSuchProduct(product_idx, products) ==
    product_idx < 0 \/ product_idx >= Len(products)

PopAt_last(products, product_idx) == SubSeq(products, 1, Len(products) - 1)

\* products.pop(product_idx)
PopAt(products, product_idx) ==
    SubSeq(products, 1, product_idx) \o SubSeq(products, product_idx + 2, Len(products))

BadIndex_inclusive(product_idx, products) ==
    product_idx < 0 \/ product_idx > Len(products)

\* product_idx < 0 or product_idx >= len(products)
BadIndex(product_idx, products) ==
    product_idx < 0 \/ product_idx >= Len(products)

\* handle_product_selection
handle_product_selection(u, data) ==
    /\ pc.stage = "idle"
    /\ data \in SelectionData
    /\ LET products == user_data[u].pending_receipt_products IN
       IF data.name \in {"action_back_to_list", "action_back_to_products"}
       THEN /\ reply' = [reply EXCEPT ![u] =
                   IF products = <<>> THEN <<"error_no_products">> ELSE <<"review">>]
            /\ UNCHANGED user_data
       ELSE IF BadIndex(data.idx, products)
       THEN /\ reply' = [reply EXCEPT ![u] = <<"error_bad_index">>]
            /\ UNCHANGED user_data
       ELSE /\ user_data' = [user_data EXCEPT ![u].editing_product_idx = data.idx]
            /\ reply' = [reply EXCEPT ![u] = <<"edit_options">>]
    /\ outcome' = NoOutcome
    /\ UNCHANGED <<photoVars, conv, pc, call, edits, prefVars, sinkVars>>

\* a step that changes the pending items is one more edit; a run has at most
\* MaxEdits of them
CountEdit(u) ==
    /\ edits' = IF user_data'[u].pending_receipt_products
                      # user_data[u].pending_receipt_products
                THEN edits + 1 ELSE edits
    /\ edits' <= MaxEdits

\* handle_edit_type_callback: the entry point of the edit conversation; a
\* return without a value leaves the conversation where it was
handle_edit_type_callback(u, data) ==
    /\ pc.stage = "idle"
    /\ data \in EditTypes
    /\ LET products == user_data[u].pending_receipt_products
           product_idx == user_data[u].editing_product_idx
       IN IF NoSuchProduct(product_idx, products)
          THEN /\ reply' = [reply EXCEPT ![u] = <<"error_product_not_found">>]
               /\ UNCHANGED <<user_data, conv>>
          ELSE IF data = "edit_quantity"
          THEN /\ user_data' = [user_data EXCEPT ![u].waiting_for_quantity = TRUE]
               /\ reply' = [reply EXCEPT ![u] = <<"ask_quantity">>]
               /\ conv' = [conv EXCEPT ![u].edit = "WAITING_FOR_QUANTITY"]
          ELSE IF data = "edit_price"
          THEN /\ user_data' = [user_data EXCEPT ![u].waiting_for_price = TRUE]
               /\ reply' = [reply EXCEPT ![u] = <<"ask_price">>]
               /\ conv' = [conv EXCEPT ![u].edit = "WAITING_FOR_PRICE"]
          ELSE LET rest == PopAt(products, product_idx) IN
               /\ user_data' = [user_data EXCEPT ![u] =
                      [@ EXCEPT !.pending_receipt_products = rest,
                                !.editing_product_idx = -1,
                                !.pending_receipt_csv =
                                    IF rest # <<>> THEN RebuildCsv(rest) ELSE NoCsv]]
               /\ reply' = [reply EXCEPT ![u] =
                      IF rest # <<>> THEN <<"review">> ELSE <<"all_deleted">>]
               /\ UNCHANGED conv
    /\ CountEdit(u)
    /\ outcome' = NoOutcome
    /\ UNCHANGED <<photoVars, pc, call, prefVars, sinkVars>>

\* the end of an accepted edit: the items are stored, the index is popped
\* and the CSV is rebuilt
AfterEdit_unselect(ud, u, products) ==
    [ud EXCEPT ![u] =
        [@ EXCEPT !.pending_receipt_products = products,
                  !.editing_product_idx = -1,
                  !.selected_currency = <<>>,
                  !.pending_receipt_csv = RebuildCsv(products)]]

AfterEdit(ud, u, products) ==
    [ud EXCEPT ![u] =
        [@ EXCEPT !.pending_receipt_products = products,
                  !.editing_product_idx = -1,
                  !.pending_receipt_csv = RebuildCsv(products)]]

\* the test of handle_quantity_input on the parsed value
QuantityRejected(quantity) == FloatLE(quantity, 0)

\* handle_quantity_input
handle_quantity_input(u, text) ==
    /\ pc.stage = "idle"
    /\ LET parsed == float(ReplaceComma(Strip(text)))
           quantity == parsed.value
           products == user_data[u].pending_receipt_products
           product_idx == user_data[u].editing_product_idx
       IN IF ~user_data[u].waiting_for_quantity
          THEN /\ conv' = [conv EXCEPT ![u].edit = "END"]
               /\ reply' = [reply EXCEPT ![u] = <<>>]
               /\ UNCHANGED user_data
          ELSE IF ~parsed.ok
          THEN /\ reply' = [reply EXCEPT ![u] = <<"bad_number">>]
               /\ conv' = [conv EXCEPT ![u].edit = "WAITING_FOR_QUANTITY"]
               /\ UNCHANGED user_data
          ELSE IF QuantityRejected(quantity)
          THEN /\ reply' = [reply EXCEPT ![u] = <<"quantity_not_positive">>]
               /\ conv' = [conv EXCEPT ![u].edit = "WAITING_FOR_QUANTITY"]
               /\ UNCHANGED user_data
          ELSE IF NoSuchProduct(product_idx, products)
          THEN /\ reply' = [reply EXCEPT ![u] = <<"error_product_not_found">>]
               /\ user_data' = [user_data EXCEPT ![u].waiting_for_quantity = FALSE,
                                                 ![u].editing_product_idx = -1]
               /\ conv' = [conv EXCEPT ![u].edit = "END"]
          ELSE /\ user_data' = AfterEdit(
                      [user_data EXCEPT ![u].waiting_for_quantity = FALSE], u,
                      [products EXCEPT ![product_idx + 1].quantity = quantity])
               /\ reply' = [reply EXCEPT ![u] = <<"review">>]
               /\ conv' = [conv EXCEPT ![u].edit = "END"]
    /\ CountEdit(u)
    /\ outcome' = NoOutcome
    /\ UNCHANGED <<photoVars, pc, call, prefVars, sinkVars>>

\* the test of handle_price_input on the parsed value
PriceRejected(price) == FloatLT(price, 0)

\* handle_price_input
handle_price_input(u, text) ==
    /\ pc.stage = "idle"
    /\ LET parsed == float(ReplaceComma(Strip(text)))
           price == parsed.value
           products == user_data[u].pending_receipt_products
           product_idx == user_data[u].editing_product_idx
       IN IF ~user_data[u].waiting_for_price
          THEN /\ conv' = [conv EXCEPT ![u].edit = "END"]
               /\ reply' = [reply EXCEPT ![u] = <<>>]
               /\ UNCHANGED user_data
          ELSE IF ~parsed.ok
          THEN /\ reply' = [reply EXCEPT ![u] = <<"bad_number">>]
               /\ conv' = [conv EXCEPT ![u].edit = "WAITING_FOR_PRICE"]
               /\ UNCHANGED user_data
          ELSE IF PriceRejected(price)
          THEN /\ reply' = [reply EXCEPT ![u] = <<"price_negative">>]
               /\ conv' = [conv EXCEPT ![u].edit = "WAITING_FOR_PRICE"]
               /\ UNCHANGED user_data
          ELSE IF NoSuchProduct(product_idx, products)
          THEN /\ reply' = [reply EXCEPT ![u] = <<"error_product_not_found">>]
               /\ user_data' = [user_data EXCEPT ![u].waiting_for_price = FALSE,
                                                 ![u].editing_product_idx = -1]
               /\ conv' = [conv EXCEPT ![u].edit = "END"]
          ELSE /\ user_data' = AfterEdit(
                      [user_data EXCEPT ![u].waiting_for_price = FALSE], u,
                      [products EXCEPT ![product_idx + 1].price = price])
               /\ reply' = [reply EXCEPT ![u] = <<"review">>]
               /\ conv' = [conv EXCEPT ![u].edit = "END"]
    /\ CountEdit(u)
    /\ outcome' = NoOutcome
    /\ UNCHANGED <<photoVars, pc, call, prefVars, sinkVars>>

\* ------------------------------------------------------- the engine's runs
\* the build in which the call at bot.py:280 reaches the body of
\* process_receipts (the callee takes the keyword)
InitEngine == InitCommon /\ call = NoCall /\ binding = "positional"

\* the dispatch of main(): a callback whose pattern is a conversation's entry
\* point is served only while that conversation is not in a state; a text goes
\* to the first conversation, in the order of add_handler, that is in a state
NextEngine ==
    \/ \E u \in Users : handle_photo_single(u)
    \/ \E u \in Users, data \in LanguageButtons \cup {Other} :
          conv[u].language = "END" /\ handle_language_callback(u, data)
    \/ \E u \in Users, text \in LanguageTexts :
          /\ conv[u].edit = "END"
          /\ conv[u].currency = "END"
          /\ conv[u].language = "WAITING_FOR_LANGUAGE"
          /\ handle_custom_language(u, text)
    \/ \E resp \in Responses : await_process_receipts(resp)
    \/ \E u \in Users, data \in CurrencyButtons \cup {Other} :
          conv[u].currency = "END" /\ handle_currency_callback(u, data)
    \/ \E u \in Users, text \in CurrencyTexts :
          /\ conv[u].edit = "END"
          /\ conv[u].currency = "WAITING_FOR_CURRENCY"
          /\ handle_custom_currency(u, text)
    \/ \E u \in Users, gs_ok \in BOOLEAN, db_ok \in BOOLEAN,
          data \in {"action_edit", "action_confirm", "action_cancel"} :
          handle_action_callback(u, data, gs_ok, db_ok)

SpecEngine == InitEngine /\ [][NextEngine]_vars

\* --------------------------------------------------- the edit flow's runs
\* The engine with the edit handlers, for a deployment without a spreadsheet
\* and a submitter who uses the buttons; every extraction request is answered
\* with the table of two lines.  The edit conversation is registered before
\* the currency and the language conversation, so a text goes to it whenever
\* it is in a state.
InitEdit == InitCommon /\ call = NoCall /\ binding = "positional" /\ ~gs_configured

EditResponses == {Answer(TableText, CsvGood, TRUE)}

NextEdit ==
    \/ \E u \in Users : nPhotos < MaxEditReceipts /\ handle_photo_single(u)
    \/ \E u \in Users, data \in LanguageButtons :
          conv[u].language = "END" /\ handle_language_callback(u, data)
    \/ \E resp \in EditResponses : await_process_receipts(resp)
    \/ \E u \in Users, data \in CurrencyButtons :
          conv[u].currency = "END" /\ handle_currency_callback(u, data)
    \/ \E u \in Users, data \in SelectionData : handle_product_selection(u, data)
    \/ \E u \in Users, db_ok \in BOOLEAN,
          data \in {"action_edit", "action_confirm", "action_cancel"} :
          handle_action_callback(u, data, FALSE, db_ok)
    \/ \E u \in Users, data \in EditTypes :
          conv[u].edit = "END" /\ handle_edit_type_callback(u, data)
    \/ \E u \in Users, text \in QuantityTexts :
          conv[u].edit = "WAITING_FOR_QUANTITY" /\ handle_quantity_input(u, text)
    \/ \E u \in Users, text \in PriceTexts :
          conv[u].edit = "WAITING_FOR_PRICE" /\ handle_price_input(u, text)

SpecEdit == InitEdit /\ [][NextEdit]_vars

\* ------------------------------------------- process_receipts on its own
\* one call with a non-empty photo list (process_photos_with_language returns
\* before the call when the list is empty, bot.py:208) and the answer each
\* strategy's request would get
call_process_receipts ==
    /\ ~call.returned
    /\ call' = [call EXCEPT !.returned = TRUE,
                            !.result = process_receipts(call.photos, call.resps)]
    /\ outcome' = NoOutcome
    /\ UNCHANGED <<photoVars, user_data, reply, conv, pc, edits, prefVars, sinkVars>>

InitPipe ==
    /\ InitCommon
    /\ binding = "positional"
    /\ gs_configured
    /\ call \in {[NoCall EXCEPT !.photos = p, !.resps = rs] :
                    p \in {<<0>>, <<1, 2>>},
                    rs \in [1..Len(StrategyName) -> PipeResponses]}

NextPipe == call_process_receipts

SpecPipe == InitPipe /\ [][NextPipe]_vars

\* ------------------------------------- _is_suspicious_products on its own
\* one call on a list of at most MaxItems items; an item has no name, a name
\* of blanks or one name, a category and a subcategory that are blank,
\* Unknown in some case or known, and a price that is zero, not zero or no
\* number
DetectorNames == {<<<<>>, <<>>>>, <<<<" ">>, <<>>>>, <<<<>>, <<"M","i","l","k">>>>}
DetectorCategories == {<<" ">>, <<"U","N","K","N","O","W","N">>, Food}
DetectorSubcategories == {Unknown, Dairy}
DetectorPrices == {0, 250, Unparsable}
DetectorItems ==
    {Product(n[1], n[2], c, sub, price) :
        n \in DetectorNames, c \in DetectorCategories,
        sub \in DetectorSubcategories, price \in DetectorPrices}
DetectorLists == UNION {[1..n -> DetectorItems] : n \in 0..MaxItems}

call_is_suspicious_products ==
    /\ ~call.returned
    /\ call' = [call EXCEPT !.returned = TRUE,
                            !.suspicious = _is_suspicious_products(call.products)]
    /\ outcome' = NoOutcome
    /\ UNCHANGED <<photoVars, user_data, reply, conv, pc, edits, prefVars, sinkVars>>

InitDetector ==
    /\ InitCommon
    /\ binding = "positional"
    /\ gs_configured
    /\ call \in {[products |-> ps, returned |-> FALSE, suspicious |-> FALSE] :
                    ps \in DetectorLists}

NextDetector == call_is_suspicious_products

SpecDetector == InitDetector /\ [][NextDetector]_vars

\* ------------------------------------------- the end of a save on its own
\* one list of at most MaxItems items goes through the stamping and through
\* both sinks' row builders; an item has a quantity as the edit stores it
\* (a number, or nan), or a text that is no number, and a date that is
\* missing, blank or given
ItemDate == <<"2","0","2","5","-","1","1","-","0","4">>
SinkQuantities == {NaN, Unparsable, 40, 100, 200, 370}
SinkDates == {<<>>, <<" ">>, ItemDate}
SinkItems ==
    {[p EXCEPT !.quantity = q, !.receipt_date = d] :
        p \in {Milk, Bread}, q \in SinkQuantities, d \in SinkDates}
SinkLists == UNION {[1..n -> SinkItems] : n \in 0..MaxItems}

\* formatters.format_readable_message: price * quantity of an item, in
\* ten-thousandths; a price or quantity that Decimal() rejects counts as 0 or 1
item_total_unit(product) ==
    IF product.price \in {NaN, Unparsable} THEN 0 ELSE product.price * 100

item_total(product) ==
    LET price == IF product.price = Unparsable THEN 0 ELSE product.price
        quantity == IF product.quantity = Unparsable THEN 100 ELSE product.quantity
    IN IF price = NaN \/ quantity = NaN THEN NaN ELSE price * quantity

\* the total of the review summary
RECURSIVE format_total(_)
format_total(products) ==
    IF products = <<>> THEN 0
    ELSE LET rest == format_total(Tail(products))
             first == item_total(Head(products))
         IN IF first = NaN \/ rest = NaN THEN NaN ELSE first + rest

call_save ==
    /\ ~call.returned
    /\ LET stamped == WithDate(WithCurrency(call.products, RSD)) IN
       call' = [call EXCEPT !.returned = TRUE,
                            !.stamped = stamped,
                            !.total = format_total(WithCurrency(call.products, RSD)),
                            !.sheet = write_products_to_sheet(stamped),
                            !.database = save_products_to_db(1, stamped),
                            !.db_success = ~RangeRaises(stamped) /\ stamped # <<>>]
    /\ outcome' = NoOutcome
    /\ UNCHANGED <<photoVars, user_data, reply, conv, pc, edits, prefVars, sinkVars>>

InitSinks ==
    /\ InitCommon
    /\ binding = "positional"
    /\ gs_configured
    /\ call \in {[products |-> ps, returned |-> FALSE, stamped |-> <<>>, total |-> 0,
                  sheet |-> <<>>, database |-> <<>>, db_success |-> FALSE] :
                    ps \in SinkLists}

NextSinks == call_save

SpecSinks == InitSinks /\ [][NextSinks]_vars

\* --------------------------------------------- the preference lists alone
\* add operations in any order, with values as the handlers pass them: codes
\* of three letters in upper case, language names without surrounding blanks
PrefCurrencies == {RSD, EUR, USD, RUB, GBP, JPY, CHF}
PrefLanguages == {Serbian, Italian}

call_add_user_currency(u, currency) ==
    /\ currency_prefs' = add_user_currency(currency_prefs, u, currency)
    /\ outcome' = NoOutcome
    /\ UNCHANGED <<photoVars, user_data, reply, conv, pc, call, edits,
                   language_prefs, sinkVars>>

call_add_user_language(u, language) ==
    /\ language_prefs' = add_user_language(language_prefs, u, language)
    /\ outcome' = NoOutcome
    /\ UNCHANGED <<photoVars, user_data, reply, conv, pc, call, edits,
                   currency_prefs, sinkVars>>

InitPrefs == InitCommon /\ call = NoCall /\ binding = "positional" /\ gs_configured

NextPrefs ==
    \/ \E u \in Users, currency \in PrefCurrencies : call_add_user_currency(u, currency)
    \/ \E u \in Users, language \in PrefLanguages : call_add_user_language(u, language)

SpecPrefs == InitPrefs /\ [][NextPrefs]_vars

\* ----------------------------------- the application's dispatch of updates
\* Button presses of a submitter whose submission is under review reach the
\* application at any time, also while a handler is suspended at an await.
\* The application is built without concurrent_updates and the handlers are
\* registered as blocking ones, so it takes the next update when the handler
\* of the previous one has returned.  handle_action_callback runs in the
\* steps its awaits cut it into.
ActionData == {"action_edit", "action_confirm", "action_cancel"}

\* an update arrives; overlapped: a handler was running then
deliver(u, data) ==
    /\ dispatch.delivered < MaxUpdates
    /\ dispatch' = [dispatch EXCEPT
           !.queue = Append(@, [user |-> u, data |-> data,
                                overlapped |-> dispatch.running # {}]),
           !.delivered = @ + 1]
    /\ outcome' = NoOutcome
    /\ UNCHANGED <<photoVars, user_data, reply, conv, pc, call, edits, prefVars,
                   gs_rows, db_rows, audit, gs_configured, binding, persisted, chosen>>

MayStart_concurrent(running) == TRUE

\* the application awaits the handler of an update before it takes the next
MayStart(running) == running = {}

\* the application takes the next update and calls its handler, which runs
\* up to await query.answer()
start_handler ==
    /\ dispatch.queue # <<>>
    /\ MayStart(dispatch.running)
    /\ LET update == Head(dispatch.queue) IN
       dispatch' = [dispatch EXCEPT
           !.queue = Tail(@),
           !.running = @ \cup {[id |-> dispatch.delivered - Len(dispatch.queue) + 1,
                                user |-> update.user, data |-> update.data,
                                overlapped |-> update.overlapped,
                                at |-> "answer"]}]
    /\ outcome' = NoOutcome
    /\ UNCHANGED <<photoVars, user_data, reply, conv, pc, call, edits, prefVars,
                   gs_rows, db_rows, audit, gs_configured, binding, persisted, chosen>>

\* the handler h is now suspended at await point
Suspend(h, point) ==
    dispatch' = [dispatch EXCEPT !.running = (@ \ {h}) \cup {[h EXCEPT !.at = point]}]

\* a suspended handler goes on to its next await or returns
resume(h, gs_ok, db_ok) ==
    /\ h \in dispatch.running
    /\ LET u == h.user
           products == user_data[u].pending_receipt_products
           csv_response == user_data[u].pending_receipt_csv
           currency == user_data[u].selected_currency
           stamped == WithDate(WithCurrency(products, currency))
           gs_success == gs_configured /\ gs_ok
           db_success == db_ok /\ ~RangeRaises(products)
       IN IF h.at = "answer" /\ h.data = "action_edit"
          THEN /\ reply' = [reply EXCEPT ![u] =
                      IF products = <<>> THEN <<"error_no_products">>
                      ELSE <<"choose_product">>]
               /\ Suspend(h, "edit_message_text")
               /\ UNCHANGED <<user_data, gs_rows, db_rows, persisted>>
          ELSE IF h.at = "answer" /\ h.data = "action_cancel"
          THEN /\ user_data' = Discard(user_data, u)
               /\ reply' = [reply EXCEPT ![u] = <<"cancelled">>]
               /\ Suspend(h, "edit_message_text")
               /\ UNCHANGED <<gs_rows, db_rows, persisted>>
          ELSE IF h.at = "answer" /\ (products = <<>> \/ csv_response.empty)
          THEN /\ reply' = [reply EXCEPT ![u] = <<"error_no_data">>]
               /\ Suspend(h, "edit_message_text")
               /\ UNCHANGED <<user_data, gs_rows, db_rows, persisted>>
          ELSE IF h.at = "answer" /\ currency = <<>>
          THEN /\ reply' = [reply EXCEPT ![u] = <<"error_no_currency">>]
               /\ Suspend(h, "edit_message_text")
               /\ UNCHANGED <<user_data, gs_rows, db_rows, persisted>>
          ELSE IF h.at = "answer"
          THEN \* save_receipt_with_currency up to the message it awaits
               /\ gs_rows' = IF gs_success
                             THEN gs_rows \o write_products_to_sheet(stamped)
                             ELSE gs_rows
               /\ db_rows' = IF db_success
                             THEN db_rows \o save_products_to_db(u, stamped)
                             ELSE db_rows
               /\ reply' = [reply EXCEPT ![u] = <<SaveMessage(gs_success, db_success)>>]
               /\ user_data' = [user_data EXCEPT ![u].pending_receipt_products = stamped]
               /\ persisted' = [persisted EXCEPT ![u] = @ \/ gs_success \/ db_success]
               /\ Suspend(h, "reply_text")
          ELSE IF h.at = "reply_text"
          THEN \* the pops of save_receipt_with_currency, then the last message
               /\ user_data' = CleanUp(user_data, u)
               /\ reply' = [reply EXCEPT ![u] = @ \o <<"done">>]
               /\ Suspend(h, "edit_message_text")
               /\ UNCHANGED <<gs_rows, db_rows, persisted>>
          ELSE \* the handler returns
               /\ dispatch' = [dispatch EXCEPT !.running = @ \ {h}]
               /\ UNCHANGED <<user_data, reply, gs_rows, db_rows, persisted>>
    /\ outcome' = NoOutcome
    /\ UNCHANGED <<photoVars, conv, pc, call, edits, prefVars, audit, gs_configured,
                   binding, chosen>>

\* a submission under review: extracted, its currency chosen with the button
UnderReview ==
    [EmptyUserData EXCEPT
        !.pending_receipt_csv = CsvGood,
        !.pending_receipt_products = WithCurrency(parse_csv(CsvGood), RSD),
        !.selected_language = Serbian,
        !.selected_currency = RSD]

\* each submitter either has a submission under review or has none
InitDispatch ==
    /\ media_groups = [k \in Keys |-> NoEntry]
    /\ tasks = {}
    /\ nTasks = 0
    /\ user_data \in [Users -> {EmptyUserData, UnderReview}]
    /\ nPhotos = Cardinality({u \in Users : user_data[u] = UnderReview})
    /\ handed = [i \in 1..nPhotos |-> [photos |-> <<i - 1>>, key |-> "none"]]
    /\ reply = [u \in Users |->
                   IF user_data[u] = UnderReview THEN <<"review">> ELSE <<>>]
    /\ conv = [u \in Users |-> ConvEnd]
    /\ pc = Idle
    /\ language_prefs = [u \in Users |->
                   IF user_data[u] = UnderReview THEN <<Serbian>> ELSE <<>>]
    /\ currency_prefs = [u \in Users |->
                   IF user_data[u] = UnderReview THEN <<RSD>> ELSE <<>>]
    /\ gs_rows = <<>>
    /\ db_rows = <<>>
    /\ audit = IF \E u \in Users : user_data[u] = UnderReview THEN {CsvGood} ELSE {}
    /\ gs_configured \in BOOLEAN
    /\ persisted = [u \in Users |-> FALSE]
    /\ chosen = [u \in Users |-> user_data[u] = UnderReview]
    /\ outcome = NoOutcome
    /\ edits = 0
    /\ dispatch = NoDispatch
    /\ arrived = [k \in Keys |-> 0]
    /\ sinceFirst = [k \in Keys |-> -1]
    /\ sinceLast = [k \in Keys |-> -1]
    /\ closeGaps = [k \in Keys |-> TRUE]
    /\ spanShort = [k \in Keys |-> TRUE]
    /\ call = NoCall
    /\ binding = "positional"

NextDispatch ==
    \/ \E u \in Users, data \in ActionData : deliver(u, data)
    \/ start_handler
    \/ \E h \in dispatch.running, gs_ok \in BOOLEAN, db_ok \in BOOLEAN :
          resume(h, gs_ok, db_ok)

SpecDispatch == InitDispatch /\ [][NextDispatch]_vars

\* ------------------------------------------- extract_csv_strict on its own
\* A text is the sequence of its characters, "\n" the line break.  The
\* backquote cannot stand in a string of this language and is written out.
Backquote == "backquote"
FenceCsv == <<Backquote, Backquote, Backquote, "c", "s", "v">>
Fence == <<Backquote, Backquote, Backquote>>
LineBreak == <<"\n">>
Komma == <<",">>
original_product_name ==
    <<"o", "r", "i", "g", "i", "n", "a", "l", "_", "p", "r", "o", "d", "u",
      "c", "t", "_", "n", "a", "m", "e">>
translated_product_name ==
    <<"t", "r", "a", "n", "s", "l", "a", "t", "e", "d", "_", "p", "r", "o",
      "d", "u", "c", "t", "_", "n", "a", "m", "e">>
category == <<"c", "a", "t", "e", "g", "o", "r", "y">>
subcategory == <<"s", "u", "b", "c", "a", "t", "e", "g", "o", "r", "y">>
price == <<"p", "r", "i", "c", "e">>
product == <<"p", "r", "o", "d", "u", "c", "t">>
header_keywords ==
    <<original_product_name, translated_product_name, category, subcategory, price>>

\* str.strip(): blanks and line breaks at both ends go
StripText(t) ==
    LET ink == {i \in 1..Len(t) : t[i] \notin {" ", "\n"}} IN
    IF ink = {} THEN <<>>
    ELSE SubSeq(t, CHOOSE i \in ink : \A j \in ink : i <= j,
                   CHOOSE i \in ink : \A j \in ink : i >= j)

\* str.split(sep): the pieces between the occurrences of sep, left to right
RECURSIVE SplitFrom(_, _, _)
SplitFrom(t, sep, from) ==
    LET found == {i \in from..(Len(t) - Len(sep) + 1) :
                     SubSeq(t, i, i + Len(sep) - 1) = sep}
    IN IF found = {} THEN <<SubSeq(t, from, Len(t))>>
       ELSE LET i == CHOOSE i \in found : \A j \in found : i <= j
            IN <<SubSeq(t, from, i - 1)>> \o SplitFrom(t, sep, i + Len(sep))

Split(t, sep) == SplitFrom(t, sep, 1)

\* sep.join(pieces)
RECURSIVE Join(_, _)
Join(pieces, sep) ==
    IF pieces = <<>> THEN <<>>
    ELSE IF Len(pieces) = 1 THEN pieces[1]
    ELSE pieces[1] \o sep \o Join(Tail(pieces), sep)

\* line.count(',')
CommaCount(line) == Cardinality({i \in 1..Len(line) : line[i] = ","})

\* the text with its ```csv block taken out of it, if it has one
WithoutCsvFence(text) ==
    IF Contains(Lower(text), FenceCsv)
    THEN LET parts == Split(text, FenceCsv) IN
         IF Len(parts) > 1 THEN StripText(Split(parts[2], Fence)[1]) ELSE text
    ELSE text

\* a part between fences that looks like the CSV
LooksLikeCsv(part) ==
    /\ Contains(part, Komma)
    /\ \/ Contains(Lower(part), original_product_name)
       \/ Contains(Lower(part), product) /\ Contains(Lower(part), price)

\* the text with a generic ``` block taken out of it, if it has one
WithoutFence(text) ==
    IF Contains(text, Fence)
    THEN LET parts == Split(text, Fence)
             like == {i \in 1..Len(parts) : LooksLikeCsv(parts[i])}
         IN IF like # {}
            THEN StripText(parts[CHOOSE i \in like : \A j \in like : i <= j])
            ELSE StripText(parts[2])
    ELSE text

HasKeyword(line) ==
    \E k \in 1..Len(header_keywords) : Contains(Lower(line), header_keywords[k])

\* the index of the header line (the first line is line 1)
HeaderIndex(lines) ==
    LET named == {i \in 1..Len(lines) : HasKeyword(lines[i]) /\ CommaCount(lines[i]) >= 4}
        commas == {i \in 1..Len(lines) :
                      CommaCount(lines[i]) >= 4 /\ StripText(lines[i]) # <<>>}
    IN IF named # {} THEN CHOOSE i \in named : \A j \in named : i <= j
       ELSE IF commas # {} THEN CHOOSE i \in commas : \A j \in commas : i <= j
       ELSE 1

\* the lines that are not empty and have at least 3 commas
RECURSIVE CsvLike(_)
CsvLike(lines) ==
    IF lines = <<>> THEN <<>>
    ELSE IF StripText(Head(lines)) # <<>> /\ CommaCount(Head(lines)) >= 3
    THEN <<Head(lines)>> \o CsvLike(Tail(lines))
    ELSE CsvLike(Tail(lines))

\* the lines up to the first one with fewer commas than expected less one
RECURSIVE ValidLines(_, _)
ValidLines(lines, expected_commas) ==
    IF lines = <<>> THEN <<>>
    ELSE IF CommaCount(Head(lines)) >= expected_commas - 1
    THEN <<Head(lines)>> \o ValidLines(Tail(lines), expected_commas)
    ELSE <<>>

extract_csv_strict(raw) ==
    IF raw = <<>> THEN <<>>
    ELSE LET text == WithoutFence(WithoutCsvFence(StripText(raw)))
             lines == Split(text, LineBreak)
             header_idx == HeaderIndex(lines)
             csv_lines == CsvLike(SubSeq(lines, header_idx, Len(lines)))
             valid_lines ==
                 IF csv_lines = <<>> THEN <<>>
                 ELSE <<csv_lines[1]>>
                          \o ValidLines(Tail(csv_lines), CommaCount(csv_lines[1]))
             result == StripText(Join(valid_lines, LineBreak))
         IN IF result # <<>> /\ Contains(result, Komma) THEN result
            ELSE StripText(text)

\* the header the prompts ask for, and two data rows
HeaderLine ==
    <<"o", "r", "i", "g", "i", "n", "a", "l", "_", "p", "r", "o", "d", "u",
      "c", "t", "_", "n", "a", "m", "e", ",", "t", "r", "a", "n", "s", "l",
      "a", "t", "e", "d", "_", "p", "r", "o", "d", "u", "c", "t", "_", "n",
      "a", "m", "e", ",", "c", "a", "t", "e", "g", "o", "r", "y", ",", "s",
      "u", "b", "c", "a", "t", "e", "g", "o", "r", "y", ",", "p", "r", "i",
      "c", "e">>
RowMilk ==
    <<"M", "l", "e", "k", "o", ",", "M", "i", "l", "k", ",", "F", "o", "o",
      "d", ",", "D", "a", "i", "r", "y", ",", "2", ".", "5", "0">>
RowBread ==
    <<"H", "l", "e", "b", ",", "B", "r", "e", "a", "d", ",", "F", "o", "o",
      "d", ",", "B", "a", "k", "e", "r", "y", ",", "1", ".", "2", "0">>
\* lines of prose: plain, with commas, naming columns, naming the content
ProsePlain ==
    <<"H", "e", "r", "e", " ", "i", "s", " ", "t", "h", "e", " ", "r", "e",
      "s", "u", "l", "t", ":">>
ProseCommas ==
    <<"M", "i", "l", "k", ",", " ", "b", "r", "e", "a", "d", ",", " ", "e",
      "g", "g", "s", ",", " ", "t", "e", "a">>
ProseColumns ==
    <<"N", "a", "m", "e", ",", " ", "C", "a", "t", "e", "g", "o", "r", "y",
      ",", " ", "u", "n", "i", "t", ",", " ", "p", "r", "i", "c", "e", ",",
      " ", "t", "o", "t", "a", "l">>
ProseMention ==
    <<"P", "r", "o", "d", "u", "c", "t", " ", "p", "r", "i", "c", "e", "s",
      ",", " ", "a", "s", " ", "r", "e", "a", "d", ":">>
ProseLines == {ProsePlain, ProseCommas, ProseColumns, ProseMention}
ProseChoices == {<<>>} \cup {<<line>> : line \in ProseLines}
Wrappings == {"none", "csv", "generic"}
DataRows == {rows \in UNION {[1..n -> {RowMilk, RowBread}] : n \in 1..MaxItems} : TRUE}

\* a well-formed CSV
CsvText(rows) == Join(<<HeaderLine>> \o rows, LineBreak)

\* the CSV in a block or bare, with prose lines before and after
Wrapped(before, wrapping, rows, after) ==
    Join(before
         \o (IF wrapping = "csv" THEN <<FenceCsv>>
             ELSE IF wrapping = "generic" THEN <<Fence>> ELSE <<>>)
         \o <<CsvText(rows)>>
         \o (IF wrapping = "none" THEN <<>> ELSE <<Fence>>)
         \o after, LineBreak)

call_extract_csv_strict(before, wrapping, rows, after) ==
    /\ ~call.returned
    /\ call' = [before |-> before, wrapping |-> wrapping, rows |-> rows,
                after |-> after, returned |-> TRUE,
                result |-> extract_csv_strict(Wrapped(before, wrapping, rows, after))]
    /\ UNCHANGED <<photoVars, user_data, reply, conv, pc, edits, prefVars, sinkVars,
                   outcome>>

InitRepair ==
    /\ InitCommon
    /\ gs_configured
    /\ binding = "positional"
    /\ call = [before |-> <<>>, wrapping |-> "none", rows |-> <<>>, after |-> <<>>,
               returned |-> FALSE, result |-> <<>>]

NextRepair ==
    \E before \in ProseChoices, wrapping \in Wrappings, rows \in DataRows,
       after \in ProseChoices :
        call_extract_csv_strict(before, wrapping, rows, after)

SpecRepair == InitRepair /\ [][NextRepair]_vars

\* ------------------------------------------------- the program as built
\* The aggregator and the handlers together, with the call of bot.py:280 as
\* it is written: process_receipts takes no language, the call raises before
\* a request is made, and no answer of the vision service is ever awaited.
InitProgram == InitCommon /\ call = NoCall /\ binding = "keyword"

NextProgram ==
    \/ \E k \in Keys : nPhotos < MaxProgramPhotos /\ handle_photo_group(k)
    \/ \E u \in Users : nPhotos < MaxProgramPhotos /\ handle_photo_single(u)
    \/ \E t \in tasks : process_media_group(t)
    \/ Tick
    \/ \E u \in Users, data \in LanguageButtons \cup {Other} :
          conv[u].language = "END" /\ handle_language_callback(u, data)
    \/ \E u \in Users, text \in LanguageTexts :
          /\ conv[u].edit = "END"
          /\ conv[u].currency = "END"
          /\ conv[u].language = "WAITING_FOR_LANGUAGE"
          /\ handle_custom_language(u, text)
    \/ \E u \in Users, data \in CurrencyButtons :
          conv[u].currency = "END" /\ handle_currency_callback(u, data)
    \/ \E u \in Users, gs_ok \in BOOLEAN, db_ok \in BOOLEAN :
          handle_action_callback(u, "action_confirm", gs_ok, db_ok)

SpecProgram == InitProgram /\ [][NextProgram]_vars

\* ------------------------------------------------------------------ C1
Range(s) == {s[i] : i \in 1..Len(s)}
UpTo(n) == [i \in 1..n |-> i]
BatchesOf(k) == SelectSeq(handed, LAMBDA b : b.key = k)
TaskFor(k) == {t \in tasks : t.key = k}

\* what a key's burst must look like once its photos were all close together
OneBatchWithAll(k) ==
    /\ Len(BatchesOf(k)) <= 1
    /\ \A i \in 1..Len(BatchesOf(k)) : BatchesOf(k)[i].photos = UpTo(arrived[k])
    /\ TaskFor(k) = {} => Len(BatchesOf(k)) = 1
    /\ TaskFor(k) # {} => /\ Len(BatchesOf(k)) = 0
                          /\ media_groups[k].photos = UpTo(arrived[k])

NoBatchTwice ==
    \A i, j \in 1..Len(handed) :
        (i # j /\ handed[i].key = handed[j].key /\ handed[i].key \in Keys)
            => Range(handed[i].photos) \cap Range(handed[j].photos) = {}

Fails(resp) == resp.kind # "text" \/ ~resp.save_ok
ErrorOf(resp) == IF resp.kind # "text" THEN resp.kind ELSE "save_error"
\* the strategies a call must have sent: up to the first one that does not fail
FirstOk(resps) ==
    IF \E i \in 1..Len(resps) : ~Fails(resps[i])
    THEN CHOOSE i \in 1..Len(resps) :
             ~Fails(resps[i]) /\ \A j \in 1..(i - 1) : Fails(resps[j])
    ELSE 0

\* C4: process_receipts sends the strategies in the order primary, retry_1,
\* retry_2; a strategy is sent only if every earlier one failed; the first
\* strategy that succeeds ends the call with its CSV and no later one is sent.
C4_StrategiesInOrder ==
    call.returned =>
        LET r == call.result
            n == Len(r.sent)
            k == FirstOk(call.resps)
        IN /\ n \in 1..3
           /\ \A i \in 1..n : r.sent[i].name = StrategyName[i]
           /\ \A i \in 1..(n - 1) : Fails(call.resps[i])
           /\ k # 0 => /\ n = k
                       /\ r.raised = ""
                       /\ r.csv = call.resps[k].csv

\* the second strategy succeeded after the first failed; the third was not sent
C4_Witness ==
    /\ call.returned
    /\ Len(call.result.sent) = 2
    /\ call.result.raised = ""
    /\ ~Fails(call.resps[3])
    /\ call.result.csv = CsvGood

\* ------------------------------------------------------------------ C5
\* C5: process_receipts raises exactly when all three strategies were sent and
\* all failed; it then raises the error of the third attempt and returns no
\* CSV text.
C5_RaisesLastError ==
    call.returned =>
        LET r == call.result IN
        /\ (r.raised # "") <=> (\A i \in 1..3 : Fails(call.resps[i]))
        /\ r.raised # "" => /\ Len(r.sent) = 3
                            /\ r.raised = ErrorOf(call.resps[3])
                            /\ r.csv = NoCsv
                            /\ r.saved = {}

\* three failures with different errors: the third one's error was raised
C5_Witness ==
    /\ call.returned
    /\ call.result.raised = "refusal"
    /\ call.resps[1].kind = "api_error"
    /\ call.resps[2].kind = "no_content"
    /\ Len(call.result.sent) = 3


\* ------------------------------------------------------------------ C2
Last(seq) == seq[Len(seq)]
NothingPending(u) ==
    /\ user_data[u].pending_receipt_products = <<>>
    /\ user_data[u].pending_receipt_csv = NoCsv

\* C2: once a confirm has written a submission to a sink and no extraction has
\* succeeded since, nothing is pending, and an action_confirm delivered then
\* writes to no sink and answers that there is no data.
C2_ConfirmIdempotent ==
    /\ [](\A u \in Users : persisted[u] => NothingPending(u))
    /\ [][\A u \in Users, gs_ok \in BOOLEAN, db_ok \in BOOLEAN :
            (persisted[u] /\ handle_action_callback(u, "action_confirm", gs_ok, db_ok))
                => /\ gs_rows' = gs_rows
                   /\ db_rows' = db_rows
                   /\ reply'[u] = <<"error_no_data">>]_vars

\* a confirm came again after the submission was written
C2_Witness ==
    \E u \in Users : /\ persisted[u]
                     /\ reply[u] = <<"error_no_data">>
                     /\ Len(db_rows) > 0
                     /\ Len(gs_rows) > 0

\* ------------------------------------------------------------------ C3
ConfirmReady(u) ==
    /\ user_data[u].pending_receipt_products # <<>>
    /\ ~user_data[u].pending_receipt_csv.empty
    /\ user_data[u].selected_currency # <<>>

\* C3 as stated: when a confirm finds every sink failing, the submitter gets
\* the error message and the pending items and CSV are still stored.
C3_FailureKeepsPending ==
    [][\A u \in Users, gs_ok \in BOOLEAN, db_ok \in BOOLEAN :
          (/\ ConfirmReady(u)
           /\ ~(gs_configured /\ gs_ok)
           /\ ~db_ok
           /\ handle_action_callback(u, "action_confirm", gs_ok, db_ok))
          => /\ "save_error" \in Range(reply'[u])
             /\ Len(user_data'[u].pending_receipt_products)
                    = Len(user_data[u].pending_receipt_products)
             /\ user_data'[u].pending_receipt_csv = user_data[u].pending_receipt_csv]_vars

\* ------------------------------------------------------------------ C6
\* C6: when the third strategy's answer is a refusal after two refusals, the
\* submitter gets a failure message and no currency prompt, the pending photos
\* are removed, the handler is over with the conversation ended, and nothing
\* of this submission is stored as pending items or CSV.
C6_ThreeRefusals ==
    [][\A resp \in Responses :
          (/\ await_process_receipts(resp)
           /\ resp.kind = "refusal"
           /\ Len(pc.resps) = 2
           /\ \A i \in 1..2 : pc.resps[i].kind = "refusal")
          => LET u == pc.user IN
             /\ Last(reply'[u]) \in FailureMessages
             /\ "choose_currency" \notin Range(reply'[u])
             /\ user_data'[u].pending_receipt_photos = <<>>
             /\ user_data'[u].pending_receipt_products
                    = user_data[u].pending_receipt_products
             /\ user_data'[u].pending_receipt_csv = user_data[u].pending_receipt_csv
             /\ ~user_data'[u].waiting_for_custom_language
             /\ conv'[u].language = "END"
             /\ pc' = Idle
             /\ chosen' = chosen /\ persisted' = persisted
             /\ gs_rows' = gs_rows /\ db_rows' = db_rows /\ audit' = audit]_vars

\* a first submission ended on three refusals: failure message, nothing pending
C6_Witness ==
    \E u \in Users : /\ outcome.user = u
                     /\ outcome.refusals = 3
                     /\ pc = Idle
                     /\ Last(reply[u]) \in FailureMessages
                     /\ user_data[u].pending_receipt_photos = <<>>
                     /\ NothingPending(u)
                     /\ conv[u].language = "END"


\* ------------------------------------------------------------------ C7
\* the rows a step appended to a sink
NewRows(before, after) == SubSeq(after, Len(before) + 1, Len(after))

\* C7 as stated: a step writes to a sink only if it is an action_confirm of a
\* submitter whose latest extraction succeeded and who selected a currency
\* after it, and every row written carries that currency; an action_confirm
\* between the extraction success and the currency selection writes nothing.
C7_PersistOnlyInReview ==
    [][(gs_rows' # gs_rows \/ db_rows' # db_rows)
          => \E u \in Users, gs_ok \in BOOLEAN, db_ok \in BOOLEAN :
                /\ handle_action_callback(u, "action_confirm", gs_ok, db_ok)
                /\ chosen[u]
                /\ \A i \in 1..Len(NewRows(gs_rows, gs_rows')) :
                      NewRows(gs_rows, gs_rows')[i].currency
                          = user_data[u].selected_currency
                /\ \A i \in 1..Len(NewRows(db_rows, db_rows')) :
                      NewRows(db_rows, db_rows')[i].currency
                          = user_data[u].selected_currency]_vars

\* ------------------------------------------------------------------ C8
\* C8: while a handler is in process_photos_with_language the pipeline has
\* been invoked once or twice, never a third time; a result that parses to a
\* suspicious list starts the second invocation when it is the first result,
\* every other result is stored as it is and the currency prompt follows; and
\* a second invocation starts in no other way.
C8_OneRetry ==
    /\ [](pc.stage = "extract" => pc.result_attempt \in {0, 1})
    /\ [][\A resp \in Responses :
            LET r == process_receipts(pc.photos, Append(pc.resps, resp))
                products == parse_csv(r.csv)
                u == pc.user
            IN (await_process_receipts(resp) /\ r.done /\ r.raised = "")
               => IF pc.result_attempt = 0 /\ _is_suspicious_products(products)
                  THEN /\ pc' = [pc EXCEPT !.result_attempt = 1, !.resps = <<>>]
                       /\ user_data' = user_data
                       /\ reply' = reply
                  ELSE /\ pc' = Idle
                       /\ user_data'[u].pending_receipt_products = products
                       /\ user_data'[u].pending_receipt_csv = r.csv
                       /\ Last(reply'[u]) = "choose_currency"]_vars
    /\ [][(pc'.stage = "extract" /\ pc.stage = "extract"
              /\ pc'.result_attempt # pc.result_attempt)
          => \E resp \in Responses :
                LET r == process_receipts(pc.photos, Append(pc.resps, resp)) IN
                /\ r.done /\ r.raised = ""
                /\ _is_suspicious_products(parse_csv(r.csv))
                /\ pc.result_attempt = 0 /\ pc'.result_attempt = 1]_vars

\* the second invocation's result was suspicious too and was stored as it is
C8_Witness ==
    \E u \in Users : /\ outcome.user = u
                     /\ outcome.calls = 2
                     /\ pc = Idle
                     /\ _is_suspicious_products(user_data[u].pending_receipt_products)
                     /\ ~user_data[u].pending_receipt_csv.empty
                     /\ Last(reply[u]) = "choose_currency"

\* ------------------------------------------------------------------ C9
\* C9 as stated: when a result that parses to zero items ends the extraction,
\* the submitter gets a failure message and no currency prompt, and no empty
\* list is offered for review.
C9_ZeroItemsFail ==
    [][\A resp \in Responses :
          LET r == process_receipts(pc.photos, Append(pc.resps, resp))
              u == pc.user
          IN (/\ await_process_receipts(resp)
              /\ r.done /\ r.raised = ""
              /\ parse_csv(r.csv) = <<>>
              /\ pc' = Idle)
             => /\ Last(reply'[u]) \in FailureMessages
                /\ "choose_currency" \notin Range(reply'[u])]_vars

\* ------------------------------------------------------------------ C10
\* free texts that are not three letters after strip and upper
RejectedCurrencyTexts ==
    {<<"1","2","X">>, <<"E","U","R","O">>, <<"a","b">>, <<"1","2","3">>}

\* C10: while a custom currency is awaited, a text that is not three letters
\* after trimming and upper-casing gets the re-prompt and changes nothing:
\* the conversation stays in WAITING_FOR_CURRENCY, and user_data (selected
\* currency, the items and their currency, the waiting flag) and the stored
\* currency list are as before.
C10_InvalidCurrencyRejected ==
    [][\A u \in Users, text \in RejectedCurrencyTexts :
          (/\ conv[u].currency = "WAITING_FOR_CURRENCY"
           /\ user_data[u].waiting_for_custom_currency
           /\ handle_custom_currency(u, text))
          => /\ reply'[u] = <<"invalid_currency">>
             /\ conv'[u].currency = "WAITING_FOR_CURRENCY"
             /\ user_data' = user_data
             /\ currency_prefs' = currency_prefs
             /\ chosen' = chosen
             /\ gs_rows' = gs_rows /\ db_rows' = db_rows]_vars

\* a text was rejected while items without a currency were pending
C10_Witness ==
    \E u \in Users : /\ reply[u] = <<"invalid_currency">>
                     /\ conv[u].currency = "WAITING_FOR_CURRENCY"
                     /\ user_data[u].waiting_for_custom_currency
                     /\ user_data[u].pending_receipt_products # <<>>
                     /\ user_data[u].selected_currency = <<>>
                     /\ currency_prefs[u] = <<>>

\* ------------------------------------------------------------------ C11
\* a text that reads as a number: digits with at most one comma or point and
\* an optional sign
Numeric(text) ==
    LET t == Strip(text)
        body == IF t # <<>> /\ t[1] \in {"-", "+"} THEN Tail(t) ELSE t
    IN /\ \E i \in 1..Len(body) : body[i] \in Digits
       /\ \A i \in 1..Len(body) : body[i] \in Digits \cup {",", "."}
       /\ Cardinality({i \in 1..Len(body) : body[i] \in {",", "."}}) <= 1
ValueOf(text) == float(ReplaceComma(Strip(text))).value
Items(u) == user_data[u].pending_receipt_products

\* C11 as stated: while a quantity (a price) is awaited, a text that is not a
\* number, a quantity <= 0 and a price < 0 leave user_data (the items, the
\* edited index, the waiting flag) as it was and the conversation in the same
\* waiting state; the items change only on a valid input, which ends the
\* waiting state, and the value then written is a quantity > 0 (a price >= 0).
C11_InvalidInputChangesNothing ==
    [][\A u \in Users :
          /\ \A text \in QuantityTexts :
                (/\ conv[u].edit = "WAITING_FOR_QUANTITY"
                 /\ user_data[u].waiting_for_quantity
                 /\ handle_quantity_input(u, text))
                => LET invalid == ~Numeric(text) \/ ValueOf(text) <= 0
                       idx == user_data[u].editing_product_idx
                   IN /\ invalid => /\ user_data' = user_data
                                    /\ conv'[u].edit = "WAITING_FOR_QUANTITY"
                      /\ Items(u)' # Items(u)
                           => /\ ~invalid
                              /\ conv'[u].edit = "END"
                              /\ Items(u)'[idx + 1].quantity > 0
          /\ \A text \in PriceTexts :
                (/\ conv[u].edit = "WAITING_FOR_PRICE"
                 /\ user_data[u].waiting_for_price
                 /\ handle_price_input(u, text))
                => LET invalid == ~Numeric(text) \/ ValueOf(text) < 0
                       idx == user_data[u].editing_product_idx
                   IN /\ invalid => /\ user_data' = user_data
                                    /\ conv'[u].edit = "WAITING_FOR_PRICE"
                      /\ Items(u)' # Items(u)
                           => /\ ~invalid
                              /\ conv'[u].edit = "END"
                              /\ Items(u)'[idx + 1].price >= 0]_vars

\* ------------------------------------------------------------------ C12
\* the batch of key k is out of the map and its latest photo was handed over
Completed(k) ==
    /\ ~media_groups[k].present
    /\ \E i \in 1..Len(handed) :
          handed[i].key = k /\ arrived[k] \in Range(handed[i].photos)

C13_MaxWaitCompletion ==
    /\ [](\A t \in tasks : t.waited < MEDIA_GROUP_MAX_WAIT_TIME)
    /\ [][\A t \in tasks :
            LET k == t.key IN
            (/\ process_media_group(t)
             /\ t.waited + MEDIA_GROUP_CHECK_INTERVAL >= MEDIA_GROUP_MAX_WAIT_TIME
             /\ media_groups[k].present)
            => /\ ~media_groups'[k].present
               /\ handed' = Append(handed, [key |-> k, photos |-> media_groups[k].photos])
               /\ TaskFor(k)' = {}]_vars

\* a batch of four photos, each within idle_threshold of the one before, was
\* handed over as one at max_wait, less than idle_threshold after its last photo
C13_Witness ==
    \E k \in Keys :
        /\ Completed(k)
        /\ TaskFor(k) = {}
        /\ BatchesOf(k) = <<[key |-> k, photos |-> UpTo(4)]>>
        /\ sinceFirst[k] = MEDIA_GROUP_MAX_WAIT_TIME
        /\ sinceLast[k] < MEDIA_GROUP_IDLE_THRESHOLD
        /\ closeGaps[k]

\* ------------------------------------------------------------------ C14
RECURSIVE PhotosOf(_)
\* the photos of a sequence of batches, in order
PhotosOf(batches) ==
    IF batches = <<>> THEN <<>> ELSE Head(batches).photos \o PhotosOf(Tail(batches))

TaskIds(k) == {t.id : t \in TaskFor(k)}

EmptyOrRefusal(resp) ==
    /\ resp.kind # "api_error"
    /\ \/ resp.content = <<>>
       \/ Contains(Lower(resp.content), UnableToProcess)
       \/ Contains(Lower(resp.content), CannotProcess)

ZeroPrice(p) == p.price \in {0, Unparsable}
ReadsUnknown(text) == Lower(Strip(text)) \in {<<>>, Lower(Unknown)}
NamesEmpty(p) ==
    /\ Strip(p.original_product_name) = <<>>
    /\ Strip(p.translated_product_name) = <<>>
Every(products, P(_)) == \A i \in 1..Len(products) : P(products[i])
CategoryUnknown(p) == ReadsUnknown(p.category)
BothUnknown(p) == ReadsUnknown(p.category) /\ ReadsUnknown(p.subcategory)

ExtractionSucceeds(u) ==
    \E resp \in Responses \cup EditResponses :
        LET r == process_receipts(pc.photos, Append(pc.resps, resp))
        IN /\ await_process_receipts(resp)
           /\ pc.user = u
           /\ r.done /\ r.raised = ""
           /\ pc' = Idle

\* C18: an action_cancel leaves no items, CSV, photos, selected language or
\* selected currency stored for the submitter and writes to no sink; while
\* nothing is pending an action_confirm writes to no sink, and only an
\* extraction that succeeds makes something pending again.
C18_CancelDiscards ==
    [][\A u \in Users, gs_ok \in BOOLEAN, db_ok \in BOOLEAN :
          /\ handle_action_callback(u, "action_cancel", gs_ok, db_ok)
                => /\ NothingPending(u)'
                   /\ user_data'[u].pending_receipt_photos = <<>>
                   /\ user_data'[u].selected_language = <<>>
                   /\ user_data'[u].selected_currency = <<>>
                   /\ gs_rows' = gs_rows
                   /\ db_rows' = db_rows
          /\ (NothingPending(u)
                /\ handle_action_callback(u, "action_confirm", gs_ok, db_ok))
                => /\ gs_rows' = gs_rows
                   /\ db_rows' = db_rows
                   /\ reply'[u] = <<"error_no_data">>
          /\ (NothingPending(u) /\ ~NothingPending(u)')
                => ExtractionSucceeds(u)]_vars

\* a submission that was edited and had its currency chosen has been cancelled
\* before any confirm
C18_Witness ==
    \E u \in Users : /\ reply[u] = <<"cancelled">>
                     /\ NothingPending(u)
                     /\ edits > 0
                     /\ chosen[u]
                     /\ ~persisted[u]
                     /\ db_rows = <<>>

\* ----------------------------------------------------------------- C19
\* after is before without the item at the 0-based index idx
RemovedAt(before, after, idx) ==
    /\ Len(after) = Len(before) - 1
    /\ \A j \in 1..Len(after) : after[j] = IF j <= idx THEN before[j] ELSE before[j + 1]

\* C19: an edit_delete on a selected item removes exactly the item at the
\* stored index; if items remain they are shown for review with a CSV rebuilt
\* from them, and if none remains the items and the CSV are gone and the
\* submitter is told so; either way no edit sub-state is entered, and while
\* nothing is pending a confirm writes nothing and only an extraction success
\* makes something pending again.
C19_DeleteRemovesOne ==
    [][\A u \in Users :
          LET before == Items(u)
              idx == user_data[u].editing_product_idx
          IN /\ (handle_edit_type_callback(u, "edit_delete")
                    /\ ~NoSuchProduct(idx, before))
                   => /\ RemovedAt(before, Items(u)', idx)
                      /\ conv'[u].edit = "END"
                      /\ ~user_data'[u].waiting_for_quantity
                      /\ ~user_data'[u].waiting_for_price
                      /\ gs_rows' = gs_rows /\ db_rows' = db_rows
                      /\ IF Len(before) > 1
                         THEN /\ reply'[u] = <<"review">>
                              /\ user_data'[u].pending_receipt_csv
                                     = RebuildCsv(Items(u)')
                         ELSE /\ reply'[u] = <<"all_deleted">>
                              /\ NothingPending(u)'
             /\ \A db_ok \in BOOLEAN :
                   (NothingPending(u)
                        /\ handle_action_callback(u, "action_confirm", FALSE, db_ok))
                      => /\ gs_rows' = gs_rows /\ db_rows' = db_rows
                         /\ reply'[u] = <<"error_no_data">>
             /\ (NothingPending(u) /\ ~NothingPending(u)')
                   => ExtractionSucceeds(u)]_vars

\* the first of two items was deleted and then the one that was left
C19_Witness ==
    \E u \in Users : /\ reply[u] = <<"all_deleted">>
                     /\ NothingPending(u)
                     /\ edits = 2

\* ----------------------------------------------------------------- C20
\* idx is not the 0-based index of an item
OutOfRange(idx, items) == idx \notin 0..(Len(items) - 1)

\* C20: when edit_product_<idx> names an index outside [0, len(items)), or an
\* edit type is chosen while the stored index is outside it, the submitter gets
\* an error message and the items, the CSV, the stored index, the waiting flags
\* and the conversation states are as before.
C20_BadIndexChangesNothing ==
    [][\A u \in Users :
          /\ \A data \in SelectionData :
                (/\ data.name = "edit_product_"
                 /\ OutOfRange(data.idx, Items(u))
                 /\ handle_product_selection(u, data))
                   => /\ reply'[u] = <<"error_bad_index">>
                      /\ user_data' = user_data
                      /\ conv' = conv
          /\ \A data \in EditTypes :
                (/\ OutOfRange(user_data[u].editing_product_idx, Items(u))
                 /\ handle_edit_type_callback(u, data))
                   => /\ reply'[u] = <<"error_product_not_found">>
                      /\ user_data' = user_data
                      /\ conv' = conv]_vars

\* with two items pending and the second one selected, a button for an index
\* past the end was pressed
C20_Witness ==
    \E u \in Users : /\ reply[u] = <<"error_bad_index">>
                     /\ Len(Items(u)) = 2
                     /\ user_data[u].editing_product_idx = 1

\* ----------------------------------------------------------------- C21
\* the sinks a message of save_receipt_with_currency names
SinksNamed(message) ==
    CASE message = "saved_gs_db" -> {"sheet", "database"}
      [] message = "saved_gs" -> {"sheet"}
      [] message = "saved_db" -> {"database"}
      [] OTHER -> {}
\* the sinks a step wrote rows to
SinksWritten ==
    (IF gs_rows' # gs_rows THEN {"sheet"} ELSE {})
        \cup (IF db_rows' # db_rows THEN {"database"} ELSE {})

\* C21: when a confirm saves a submission, the database gets its rows whenever
\* the database save works, whether or not the sheet write raised, the sheet
\* gets its rows whenever the sheet is configured and its write works, whatever
\* the database did, and the message names exactly the sinks that got rows.
C21_SinksIndependent ==
    [][\A u \in Users, gs_ok \in BOOLEAN, db_ok \in BOOLEAN :
          (ConfirmReady(u) /\ handle_action_callback(u, "action_confirm", gs_ok, db_ok))
             => /\ ("database" \in SinksWritten) <=> db_ok
                /\ ("sheet" \in SinksWritten) <=> (gs_configured /\ gs_ok)
                /\ reply'[u][1] \in {"saved_gs_db", "saved_gs", "saved_db", "save_error"}
                /\ SinksNamed(reply'[u][1]) = SinksWritten]_vars

\* the sheet write raised, the database save worked and the message names the
\* database alone
C21_Witness ==
    \E u \in Users : /\ gs_configured
                     /\ gs_rows = <<>>
                     /\ db_rows # <<>>
                     /\ Len(reply[u]) > 0
                     /\ reply[u][1] = "saved_db"

\* ----------------------------------------------------------------- C22
\* the rows the claim gives an item: max(1, floor(quantity)), and 1 for a
\* quantity that is no number
RowsClaimed(quantity) ==
    IF quantity \in {NaN, Unparsable} THEN 1
    ELSE IF quantity \div 100 > 1 THEN quantity \div 100 ELSE 1
\* for each row of the claimed expansion, the index of its item, counted from k
RECURSIVE Owners(_, _)
Owners(products, k) ==
    IF products = <<>> THEN <<>>
    ELSE [i \in 1..RowsClaimed(Head(products).quantity) |-> k]
             \o Owners(Tail(products), k + 1)

\* C22 as stated: each sink's rows are, for each item in order, max(1,
\* floor(quantity)) rows of that item, 1 row for a quantity that is no number.
C22_Expansion ==
    call.returned =>
        LET own == Owners(call.products, 1) IN
        /\ Len(call.sheet) = Len(own)
        /\ \A i \in 1..Len(call.sheet) :
              call.sheet[i] = sheet_row(call.stamped[own[i]])
        /\ Len(call.database) = Len(own)
        /\ \A i \in 1..Len(call.database) :
              call.database[i] = db_row(1, call.stamped[own[i]])

\* ----------------------------------------------------------------- C23
\* a sheet row and a database row of the same item
SameItem(s_row, d_row) ==
    /\ s_row.original_product_name = d_row.original_product_name
    /\ s_row.translated_product_name = d_row.translated_product_name
    /\ s_row.category = d_row.category
    /\ s_row.subcategory = d_row.subcategory
    /\ s_row.price = d_row.price
    /\ s_row.receipt_date = d_row.receipt_date
    /\ s_row.currency = d_row.currency

\* C23 as stated: the rows appended to the sheet and the rows inserted into
\* the database are equally many, and the i-th of each are of the same item.
C23_SameExpansion ==
    call.returned =>
        /\ Len(call.sheet) = Len(call.database)
        /\ \A i \in 1..Len(call.sheet) : SameItem(call.sheet[i], call.database[i])

\* ----------------------------------------------------------------- C24
NoDuplicates(list) == \A i, j \in 1..Len(list) : list[i] = list[j] => i = j
\* after an add the value is the first of the returned list
AddedIsFirst ==
    \A u \in Users :
        /\ \A currency \in PrefCurrencies :
              call_add_user_currency(u, currency)
                 => get_user_currencies(currency_prefs', u)[1] = currency
        /\ \A language \in PrefLanguages :
              call_add_user_language(u, language)
                 => get_user_languages(language_prefs', u)[1] = language
\* adding EUR when USD, EUR were added before gives EUR, USD and the other
\* defaults
ExampleAdds ==
    \A u \in Users :
        (currency_prefs[u] = <<USD, EUR>> /\ call_add_user_currency(u, EUR))
           => get_user_currencies(currency_prefs', u) = <<EUR, USD, RSD, RUB>>

\* C24 as stated: after any adds the returned list has the latest added value
\* first, no duplicates and length at most 6.
C24_AsStated ==
    /\ [](\A u \in Users :
            /\ NoDuplicates(get_user_currencies(currency_prefs, u))
            /\ NoDuplicates(get_user_languages(language_prefs, u))
            /\ Len(get_user_currencies(currency_prefs, u)) <= 6
            /\ Len(get_user_languages(language_prefs, u)) <= 6)
    /\ [][AddedIsFirst /\ ExampleAdds]_vars

\* C24 as amended: after any adds the returned list has the latest added value
\* first and no duplicates, and the stored list has length at most 6; the
\* returned list is the stored list followed by the defaults not in it.
C24_MoveToFront ==
    /\ [](\A u \in Users :
            /\ NoDuplicates(get_user_currencies(currency_prefs, u))
            /\ NoDuplicates(get_user_languages(language_prefs, u))
            /\ Len(currency_prefs[u]) <= 6
            /\ Len(language_prefs[u]) <= 6
            /\ SubSeq(get_user_currencies(currency_prefs, u), 1, Len(currency_prefs[u]))
                  = currency_prefs[u]
            /\ SubSeq(get_user_languages(language_prefs, u), 1, Len(language_prefs[u]))
                  = language_prefs[u])
    /\ [][AddedIsFirst /\ ExampleAdds]_vars

\* six codes are stored, the latest is a default that an earlier add had put
\* further back, and the returned list is longer than the stored one
C24_Witness ==
    \E u \in Users :
        /\ Len(currency_prefs[u]) = 6
        /\ currency_prefs[u][1] = EUR
        /\ currency_prefs[u][2] = GBP
        /\ RSD \notin Range(currency_prefs[u])
        /\ Len(get_user_currencies(currency_prefs, u)) = 7

\* ----------------------------------------------------------------- C25
\* value is the first of the stored list
AtFront(list, value) == list # <<>> /\ list[1] = value

\* C25: a language button or an accepted language text puts that language at
\* the front of the submitter's stored languages in the step that starts the
\* extraction, a currency button or an accepted currency text puts that code
\* at the front of the stored currencies in the step that shows the review;
\* Other, a rejected text and a text nobody waits for leave both lists alone.
C25_SelectionRecorded ==
    [][\A u \in Users :
          /\ \A data \in LanguageButtons :
                handle_language_callback(u, data)
                   => AtFront(language_prefs'[u], data)
          /\ \A text \in LanguageTexts :
                handle_custom_language(u, text)
                   => IF user_data[u].waiting_for_custom_language
                         /\ reply'[u] # <<"invalid_language">>
                      THEN AtFront(language_prefs'[u], Strip(text))
                      ELSE language_prefs' = language_prefs
          /\ \A data \in CurrencyButtons :
                handle_currency_callback(u, data)
                   => /\ AtFront(currency_prefs'[u], Upper(data))
                      /\ user_data'[u].selected_currency = Upper(data)
          /\ \A text \in CurrencyTexts :
                handle_custom_currency(u, text)
                   => IF user_data[u].waiting_for_custom_currency
                         /\ reply'[u] # <<"invalid_currency">>
                      THEN /\ AtFront(currency_prefs'[u], Upper(Strip(text)))
                           /\ user_data'[u].selected_currency = Upper(Strip(text))
                      ELSE currency_prefs' = currency_prefs
          /\ (handle_language_callback(u, Other) \/ handle_currency_callback(u, Other))
                => /\ language_prefs' = language_prefs
                   /\ currency_prefs' = currency_prefs]_vars

\* a typed code was accepted after a button choice, and a typed language
\* after nothing: both are at the front
C25_Witness ==
    \E u \in Users : /\ currency_prefs[u] = <<EUR, RSD>>
                     /\ user_data[u].selected_currency = EUR
                     /\ language_prefs[u] = <<Serbian>>
                     /\ reply[u] = <<"review">>

\* ----------------------------------------------------------------- C26
\* the item has no receipt date: the key is missing or its text is blank
LacksDate(p) == p.receipt_date \in {<<>>, <<" ">>}

\* C26: in a save every item without a receipt date is given today's date and
\* every other item keeps its date, and every row built for the sheet and for
\* the database carries the date of its item, which is not empty.
C26_DateStamped ==
    call.returned =>
        /\ Len(call.stamped) = Len(call.products)
        /\ \A i \in 1..Len(call.products) :
              call.stamped[i].receipt_date =
                  IF LacksDate(call.products[i]) THEN Today
                  ELSE call.products[i].receipt_date
        /\ \A i \in 1..Len(call.sheet) :
              /\ call.sheet[i].receipt_date # <<>>
              /\ \E j \in 1..Len(call.stamped) :
                    call.sheet[i] = sheet_row(call.stamped[j])
        /\ \A i \in 1..Len(call.database) :
              /\ call.database[i].receipt_date # <<>>
              /\ \E j \in 1..Len(call.stamped) :
                    /\ call.database[i].receipt_date = call.stamped[j].receipt_date
                    /\ SameItem(sheet_row(call.stamped[j]), call.database[i])

\* an item with a blank date and an item with its own date were saved; the
\* rows of the first carry today's date, the rows of the second its own
C26_Witness ==
    /\ call.returned
    /\ Len(call.products) = 2
    /\ call.products[1].receipt_date = <<" ">>
    /\ call.products[2].receipt_date = ItemDate
    /\ Len(call.database) = 3
    /\ call.database[1].receipt_date = Today
    /\ call.database[3].receipt_date = ItemDate
    /\ call.sheet[1].receipt_date = Today
    /\ call.sheet[3].receipt_date = ItemDate

\* ----------------------------------------------------------------- C27
\* C27: button presses of one submitter that arrive while a handler of an
\* earlier press is suspended at an await take effect one after the other:
\* a handler makes its steps while no other handler is running, and two
\* overlapping confirm presses write the rows of the submission at most
\* once to each sink.
SubmissionRows == Len(write_products_to_sheet(UnderReview.pending_receipt_products))

C28_RoundTrip ==
    call.returned => call.result = StripText(CsvText(call.rows))

\* ----------------------------------------------------------------- C29
\* C29: end to end.  Two photos that arrive under one batch key less than
\* the idle threshold apart, with no further photo, are handed over as one
\* batch of two; when the submitter has picked the language, the two photos
\* go to the vision service, whose answer to the primary prompt takes the
\* submitter to the currency prompt and to the review, and the confirmed
\* items to both sinks.
TwoPhotosClose(k) == arrived[k] = 2 /\ closeGaps[k] /\ spanShort[k]

OneBatchOfTwo ==
    \A k \in Keys : \A i \in 1..Len(handed) :
        (handed[i].key = k /\ TwoPhotosClose(k)) => handed[i].photos = <<1, 2>>

RequestGoesOut ==
    \A u \in Users, data \in LanguageButtons :
        (/\ handle_language_callback(u, data)
         /\ user_data[u].pending_receipt_photos = <<1, 2>>)
        => /\ pc'.stage = "extract"
           /\ pc'.user = u
           /\ pc'.photos = <<1, 2>>

C29_EndToEnd == []OneBatchOfTwo /\ [][RequestGoesOut]_vars

\* ----------------------------------------------------------------- C30
\* how often photo p is in the list photos
Times(photos, p) == Cardinality({i \in 1..Len(photos) : photos[i] = p})

Ascending(photos) == \A i, j \in 1..Len(photos) : i < j => photos[i] < photos[j]

-----------------------------------------------------------------------------
\* handle_photo cut at the message it awaits (bot.py:1254, 1264), next to the
\* tasks it creates.  The application runs one handler at a time; the tasks
\* and the clock move while the handler is suspended.

MaxStepPhotos == 3

\* from the end of the download to 'await update.message.reply_text'
handle_photo_collect(k) ==
    /\ dispatch.running = {}
    /\ collect_photo(k)
    /\ dispatch' = [dispatch EXCEPT !.running =
            {[key |-> k, first |-> ~media_groups[k].present, at |-> "reply_text"]}]
    /\ outcome' = NoOutcome
    /\ UNCHANGED <<tasks, nTasks, handed, user_data, conv, pc, call, edits, prefVars,
                   gs_rows, db_rows, audit, gs_configured, binding, persisted, chosen>>

\* from the return of reply_text to the end of handle_photo
handle_photo_return(h) ==
    /\ h \in dispatch.running
    /\ schedule(h.key, h.first)
    /\ dispatch' = [dispatch EXCEPT !.running = {}]
    /\ outcome' = NoOutcome
    /\ UNCHANGED <<media_groups, nPhotos, handed, user_data, reply, arrived, sinceFirst,
                   sinceLast, closeGaps, spanShort, conv, pc, call, edits, prefVars,
                   gs_rows, db_rows, audit, gs_configured, binding, persisted, chosen>>

InitSteps == InitCommon /\ call = NoCall /\ binding = "keyword" /\ gs_configured

NextSteps ==
    \/ \E k \in Keys : nPhotos < MaxStepPhotos /\ handle_photo_collect(k)
    \/ \E h \in dispatch.running : handle_photo_return(h)
    \/ \E t \in tasks : process_media_group(t)
    \/ Tick

SpecSteps == InitSteps /\ [][NextSteps]_vars

-----------------------------------------------------------------------------
Min(a, b) == IF a < b THEN a ELSE b

\* the photos of key k that were handed over
HandedOf(k) == UNION {Range(handed[i].photos) : i \in {j \in DOMAIN handed : handed[j].key = k}}

\* what any handler or task finds in the map when it runs: entries on which
\* every operation is either wholly done or not begun
WholeEntries ==
    \A k \in Keys :
        IF media_groups[k].present
        THEN /\ Len(media_groups[k].photos) >= 1
             /\ media_groups[k].since_update = Min(sinceLast[k], MEDIA_GROUP_IDLE_THRESHOLD)
             /\ Range(media_groups[k].photos) \cap HandedOf(k) = {}
             /\ Range(media_groups[k].photos) \cup HandedOf(k) = 1 .. arrived[k]
        ELSE HandedOf(k) = 1 .. arrived[k]

\* a photo of the key of a waiting task can be taken, whatever the task's sleep
AppendWhileWaiting ==
    \A t \in tasks :
        dispatch.running = {} /\ media_groups[t.key].present
            => ENABLED handle_photo_collect(t.key)

\* the entry of key k changes only in the stretch of handle_photo that handles
\* a photo of k and in the last turn of a task of k; the clock only ages it
OnlyItsOwners ==
    \A k \in Keys :
        \/ media_groups'[k] = media_groups[k]
        \/ handle_photo_collect(k) /\ nPhotos < MaxStepPhotos
        \/ \E t \in tasks : t.key = k /\ process_media_group(t) /\ t \notin tasks'
        \/ Tick /\ media_groups'[k] = [media_groups[k] EXCEPT !.since_update = @ + 1]

\* a photo taken for a key that is in the map is appended to that entry
AppendsToEntry ==
    \A k \in Keys :
        handle_photo_collect(k) /\ media_groups[k].present
            => /\ media_groups'[k].present
               /\ media_groups'[k].photos = Append(media_groups[k].photos, arrived[k] + 1)
               /\ media_groups'[k].since_update = 0

\* C31: the look-up and insert, the append with its time of last update, and
\* the copy and removal each happen between two suspension points, so every
\* state a handler or a task can run in shows whole entries and an entry is
\* changed only by the photo handler of its key and the task of its key; a
\* waiting task does not keep a photo of its key from being appended.
C31_AtomicMapOperations ==
    /\ [](WholeEntries /\ AppendWhileWaiting)
    /\ [][OnlyItsOwners /\ AppendsToEntry]_vars

\* two photos of a key are in the map, the second appended while the task
\* was in its sleep, and the handler is suspended at its message
C31_Witness ==
    \E t \in tasks :
        /\ media_groups[t.key].present
        /\ Len(media_groups[t.key].photos) = 2
        /\ t.sleep_left > 0
        /\ sinceFirst[t.key] > 0
        /\ \E h \in dispatch.running : h.key = t.key /\ ~h.first

-----------------------------------------------------------------------------
\* what an event that changes nothing leaves as it was for submitter u
NothingTouched(u) ==
    /\ user_data'[u].pending_receipt_photos = user_data[u].pending_receipt_photos
    /\ user_data'[u].pending_receipt_products = user_data[u].pending_receipt_products
    /\ user_data'[u].selected_language = user_data[u].selected_language
    /\ user_data'[u].selected_currency = user_data[u].selected_currency
    /\ language_prefs' = language_prefs
    /\ currency_prefs' = currency_prefs
    /\ gs_rows' = gs_rows
    /\ db_rows' = db_rows
    /\ audit' = audit

\* C32: a language selection with no pending photos, a currency selection
\* with no pending items or after the currency was chosen, and an action
\* button with no pending items leave the pending photos and items, the
\* selected language and currency, the stored histories and the sinks as
\* they were.
C32_OutOfStateNoOp ==
    [][\A u \in Users :
        /\ \A data \in LanguageButtons \cup {Other} :
              /\ conv[u].language = "END"
              /\ handle_language_callback(u, data)
              /\ user_data[u].pending_receipt_photos = <<>>
              => NothingTouched(u)
        /\ \A data \in CurrencyButtons \cup {Other} :
              /\ conv[u].currency = "END"
              /\ handle_currency_callback(u, data)
              /\ (user_data[u].pending_receipt_products = <<>> \/ chosen[u])
              => NothingTouched(u)
        /\ \A data \in {"action_edit", "action_confirm", "action_cancel"},
              gs_ok \in BOOLEAN, db_ok \in BOOLEAN :
              /\ handle_action_callback(u, data, gs_ok, db_ok)
              /\ user_data[u].pending_receipt_products = <<>>
              => NothingTouched(u)]_vars

-----------------------------------------------------------------------------
\* C33: the rows both sinks get are one-unit rows: a row carries no quantity
\* or the quantity 1, never the quantity of the item it was expanded from.
C33_QuantityStripped ==
    call.returned =>
        /\ \A i \in DOMAIN call.sheet :
              "quantity" \in DOMAIN call.sheet[i] => call.sheet[i].quantity = 100
        /\ \A i \in DOMAIN call.database :
              "quantity" \in DOMAIN call.database[i] => call.database[i].quantity = 100

-----------------------------------------------------------------------------
\* submitter u has photos pending and the step starts an extraction of them
\* with the given language
ExtractionStarts(u, language) ==
    /\ pc'.stage = "extract"
    /\ pc'.user = u
    /\ pc'.language = language
    /\ pc'.photos = user_data[u].pending_receipt_photos
    /\ user_data'[u].selected_language = language

\* C34: a language chosen by button or typed as text while photos are pending
\* is the language the extraction is started with; the step does not end in
\* a failure before any request.
C34_LanguageReachesPipeline ==
    [][\A u \in Users :
        /\ \A data \in LanguageButtons :
              /\ handle_language_callback(u, data)
              /\ user_data[u].pending_receipt_photos # <<>>
              => ExtractionStarts(u, data)
        /\ \A text \in LanguageTexts :
              /\ handle_custom_language(u, text)
              /\ user_data[u].waiting_for_custom_language
              /\ Strip(text) # <<>>
              /\ user_data[u].pending_receipt_photos # <<>>
              => ExtractionStarts(u, Strip(text))]_vars

-----------------------------------------------------------------------------
\* extract_csv_strict on a header followed by lines of differing comma counts

MaxLines == 3

\* the header the prompts ask for (prompts.py:79): six columns, five commas
PromptHeader ==
    HeaderLine \o <<",", "r", "e", "c", "e", "i", "p", "t", "_", "d", "a", "t", "e">>
\* a full row (5 commas), a row without date (4), a row that lacks two
\* fields (3), a line with 7 commas
RowDated == RowMilk \o <<",", "2", "0", "2", "4">>
RowShort == <<"S", "o", "k", ",", "F", "o", "o", "d", ",", "J", ",", "3">>
LineLong == <<"a", ",", "b", ",", "c", ",", "d", ",", "e", ",", "f", ",", "g", ",", "h">>
BodyLines == {RowDated, RowBread, RowShort, LineLong, ProsePlain}
Bodies == UNION {[1..n -> BodyLines] : n \in 0..MaxLines}
LeadChoices == {<<>>, <<ProsePlain>>, <<ProseCommas>>}

call_extract_lines(before, body) ==
    /\ ~call.returned
    /\ call' = [before |-> before, body |-> body, returned |-> TRUE,
                result |-> extract_csv_strict(
                               Join(before \o <<PromptHeader>> \o body, LineBreak))]
    /\ UNCHANGED <<photoVars, user_data, reply, conv, pc, edits, prefVars, sinkVars,
                   outcome>>

InitFilter ==
    /\ InitCommon
    /\ gs_configured
    /\ binding = "positional"
    /\ call = [before |-> <<>>, body |-> <<>>, returned |-> FALSE, result |-> <<>>]

NextFilter ==
    \E before \in LeadChoices, body \in Bodies : call_extract_lines(before, body)

SpecFilter == InitFilter /\ [][NextFilter]_vars

\* the comma count of the line is within 1 of the header's
WithinOne(line) ==
    LET d == CommaCount(line) - CommaCount(PromptHeader) IN d >= -1 /\ d <= 1

\* C35: what extract_csv_strict returns is the header followed by exactly the
\* later lines whose comma count is within 1 of the header's, in their
\* order; the lines before the header are gone, and a dropped line does not
\* take the valid rows after it with it.
C35_KeepsExactlyNearLines ==
    call.returned =>
        call.result = Join(<<PromptHeader>> \o SelectSeq(call.body, WithinOne), LineBreak)

-----------------------------------------------------------------------------
\* the items after are the items before, but for the quantity of the item
\* at the 0-based index idx
OnlyQuantityAt(before, after, idx) ==
    /\ Len(after) = Len(before)
    /\ \A j \in 1..Len(before) :
          after[j] = IF j = idx + 1
                     THEN [before[j] EXCEPT !.quantity = after[j].quantity]
                     ELSE before[j]

\* the same for the price
OnlyPriceAt(before, after, idx) ==
    /\ Len(after) = Len(before)
    /\ \A j \in 1..Len(before) :
          after[j] = IF j = idx + 1
                     THEN [before[j] EXCEPT !.price = after[j].price]
                     ELSE before[j]

SelectionKept(u) ==
    /\ user_data'[u].selected_currency = user_data[u].selected_currency
    /\ user_data'[u].selected_language = user_data[u].selected_language

\* C36: a quantity text changes at most the quantity of the selected item, a
\* price text at most its price, a delete removes the selected item and
\* nothing else, and choosing the kind of edit changes no item; the other
\* items keep their values and their order and the selected currency and
\* language stay.
C36_EditFrame ==
    [][\A u \in Users :
          LET before == Items(u)
              after == user_data'[u].pending_receipt_products
              idx == user_data[u].editing_product_idx
          IN /\ (OnlyQuantityAt(before, after, idx) /\ SelectionKept(u))
                \/ \A text \in QuantityTexts :
                      ~(conv[u].edit = "WAITING_FOR_QUANTITY"
                            /\ handle_quantity_input(u, text))
             /\ (OnlyPriceAt(before, after, idx) /\ SelectionKept(u))
                \/ \A text \in PriceTexts :
                      ~(conv[u].edit = "WAITING_FOR_PRICE"
                            /\ handle_price_input(u, text))
             /\ (after = before /\ SelectionKept(u))
                \/ \A data \in EditTypes :
                      (conv[u].edit = "END" /\ handle_edit_type_callback(u, data))
                      => /\ data = "edit_delete"
                         /\ ~NoSuchProduct(idx, before)
                         /\ RemovedAt(before, after, idx)
                         /\ SelectionKept(u)]_vars

\* of two items the second got a new price and then a new quantity; the
\* first is as extracted and the currency is the selected one
C36_Witness ==
    \E u \in Users :
        /\ Len(Items(u)) = 2
        /\ Items(u)[2].quantity = 150
        /\ Items(u)[2].price = 50
        /\ Items(u)[1].quantity = 100
        /\ Items(u)[1].price # 50
        /\ user_data[u].selected_currency # <<>>
        /\ reply[u] = <<"review">>
        /\ edits = 2

-----------------------------------------------------------------------------
\* the sum of the price fields of rows, in ten-thousandths
RECURSIVE PriceSum(_)
PriceSum(rows) ==
    IF rows = <<>> THEN 0 ELSE Head(rows).price * 100 + PriceSum(Tail(rows))

\* every item has a whole number of at least 1 as quantity
WholeQuantities(products) ==
    \A i \in DOMAIN products :
        /\ products[i].quantity \notin {NaN, Unparsable}
        /\ products[i].quantity >= 100
        /\ products[i].quantity % 100 = 0

TotalIsPersisted ==
    /\ call.total = PriceSum(call.sheet)
    /\ call.total = PriceSum(call.database)

\* C37 as stated: the total of the review summary of the items that were
\* confirmed is the sum of the prices of the rows each sink got.
C37_TotalEqualsPersisted ==
    call.returned /\ call.products # <<>> => TotalIsPersisted

\* C37, amended: the same for submissions in which every quantity is a whole
\* number of at least 1.
C37_TotalOfWholeQuantities ==
    call.returned /\ call.products # <<>> /\ WholeQuantities(call.products)
        => TotalIsPersisted

\* milk twice and bread once: 6.20 in the summary and in three rows per sink
C37_Witness ==
    /\ call.returned
    /\ Len(call.products) = 2
    /\ call.products[1].quantity = 200
    /\ call.products[1].price = 250
    /\ call.products[2].quantity = 100
    /\ call.products[2].price = 120
    /\ call.total = 62000
    /\ Len(call.sheet) = 3
    /\ Len(call.database) = 3

-----------------------------------------------------------------------------
\* the two preference files with the histories of two submitters; an add
\* loads the whole file, changes the entry of its submitter and saves the
\* whole file again

Submitters == {1, 2}
StoreCurrencies == {RSD, EUR}
StoreLanguages == {Serbian, Italian}

\* what load_..._preferences returns when the file is missing or reading it
\* raises: no entry for anyone
NoPreferences == [s \in Submitters |-> <<>>]

\* load_currency_preferences / load_language_preferences
load_preferences(file, readable) == IF readable THEN file ELSE NoPreferences

\* add_user_currency as a whole: what the file holds afterwards
store_user_currency(file, s, currency, readable) ==
    LET preferences == load_preferences(file, readable)
        saved == add_user_currency(preferences, s, currency)
    IN IF saved = preferences THEN file ELSE saved

\* add_user_language as a whole
store_user_language(file, s, language, readable) ==
    LET preferences == load_preferences(file, readable)
        saved == add_user_language(preferences, s, language)
    IN IF saved = preferences THEN file ELSE saved

call_store_currency(s, currency, readable) ==
    /\ call' = [call EXCEPT !.currencies = store_user_currency(@, s, currency, readable)]
    /\ UNCHANGED <<photoVars, user_data, reply, conv, pc, edits, prefVars, sinkVars,
                   outcome>>

call_store_language(s, language, readable) ==
    /\ call' = [call EXCEPT !.languages = store_user_language(@, s, language, readable)]
    /\ UNCHANGED <<photoVars, user_data, reply, conv, pc, edits, prefVars, sinkVars,
                   outcome>>

InitStore ==
    /\ InitCommon
    /\ gs_configured
    /\ binding = "positional"
    /\ call = [currencies |-> NoPreferences, languages |-> NoPreferences]

NextStore ==
    \/ \E s \in Submitters, currency \in StoreCurrencies, readable \in BOOLEAN :
          call_store_currency(s, currency, readable)
    \/ \E s \in Submitters, language \in StoreLanguages, readable \in BOOLEAN :
          call_store_language(s, language, readable)

SpecStore == InitStore /\ [][NextStore]_vars

\* C38: an add for one submitter, after a load that worked or one that
\* failed, leaves the stored history of every other submitter as it was.
C38_OthersUntouched ==
    [][\A s \in Submitters, readable \in BOOLEAN :
          /\ \A currency \in StoreCurrencies :
                call_store_currency(s, currency, readable)
                => \A o \in Submitters \ {s} : call'.currencies[o] = call.currencies[o]
          /\ \A language \in StoreLanguages :
                call_store_language(s, language, readable)
                => \A o \in Submitters \ {s} : call'.languages[o] = call.languages[o]]_vars

-----------------------------------------------------------------------------
\* the steps of SpecSteps for the photos of one key, with their scheduling:
\* the clock goes on, the event loop resumes a task whose sleep is over, and
\* the message a handler awaits returns
MaxWaitPhotos == 4
OneKey == {"g1"}

NextWait ==
    \/ \E k \in OneKey : nPhotos < MaxWaitPhotos /\ handle_photo_collect(k)
    \/ \E h \in dispatch.running : handle_photo_return(h)
    \/ \E t \in tasks : process_media_group(t)
    \/ Tick

SpecStepsLive ==
    /\ InitSteps /\ [][NextWait]_vars
    /\ WF_vars(Tick)
    /\ WF_vars(\E t \in tasks : process_media_group(t))
    /\ WF_vars(\E h \in dispatch.running : handle_photo_return(h))

MaxPolls == MEDIA_GROUP_MAX_WAIT_TIME \div MEDIA_GROUP_CHECK_INTERVAL

Alive(id) == \E t \in tasks : t.id = id

\* a task has made fewer than MaxPolls polls while it waits, and an entry of
\* the map has the task of its key or the handler that is about to create it
BoundedWait ==
    /\ \A t \in tasks : t.waited \div MEDIA_GROUP_CHECK_INTERVAL < MaxPolls
    /\ \A k \in Keys :
          media_groups[k].present
              => \/ TaskFor(k) # {}
                 \/ \E h \in dispatch.running : h.key = k /\ h.first

\* the poll that is number MaxPolls ends the task; a task that ends leaves
\* its key out of the map; one that finds no entry or no photo hands nothing
\* over
EndsClean ==
    \A t \in tasks :
        process_media_group(t)
        => /\ t.waited \div MEDIA_GROUP_CHECK_INTERVAL = MaxPolls - 1 => ~Alive(t.id)'
           /\ ~Alive(t.id)' => ~media_groups'[t.key].present
           /\ (~media_groups[t.key].present \/ media_groups[t.key].photos = <<>>)
                 => /\ handed' = handed
                    /\ user_data' = user_data
                    /\ reply' = reply

\* C39: every aggregation task ends, after at most MaxPolls = 6 polls, and
\* its key is out of the map when it has ended, so that no entry stays in
\* the map for ever; a task that finds its key gone or its batch empty
\* hands nothing over.  Photos stop coming after MaxWaitPhotos, so no entry
\* stays for ever exactly when from some point on there is no entry.
C39_TasksTerminate ==
    /\ []BoundedWait
    /\ [][EndsClean]_vars
    /\ \A id \in 1..MaxWaitPhotos : Alive(id) ~> ~Alive(id)
    /\ <>[](tasks = {} /\ \A k \in Keys : ~media_groups[k].present)

\* four photos, each less than a second after the one before: the task has
\* just ended at its sixth poll, max_wait after the first photo and before
\* the batch was idle; the four were handed over as one batch and the key
\* is out of the map
C39_Witness ==
    \E k \in Keys :
        /\ ~media_groups[k].present
        /\ TaskFor(k) = {}
        /\ nTasks = 1
        /\ BatchesOf(k) = <<[key |-> k, photos |-> UpTo(4)]>>
        /\ sinceFirst[k] = MEDIA_GROUP_MAX_WAIT_TIME
        /\ sinceLast[k] < MEDIA_GROUP_IDLE_THRESHOLD
        /\ closeGaps[k]

====
